---------------------------- MODULE Spec2Model ----------------------------
(***************************************************************************)
(* A model of symbol-network: the file key store (LocalFileKeyStore), the  *)
(* topology expansion (NetworkConfigurationService.expandNodes) and the    *)
(* genesis assembly (NetworkGenesisService.generateNemesis).               *)
(*                                                                         *)
(* Text is modelled as a sequence of one-character strings, so that the    *)
(* template substitution and the composite keys are computed the way the   *)
(* code computes them.  Private keys are numbers; the public key and the   *)
(* address are derived from the private key by injective, non-identity     *)
(* maps, standing for the SDK's derivation.                                *)
(***************************************************************************)
EXTENDS Integers, Sequences, FiniteSets, TLC

VARIABLES
    storage,        \* LocalFileKeyStore.storage: the in-memory KeyStorage
    disk,           \* the key-store.yml document of the working directory, if any
    generated,      \* how many times Account.generateNewAccount has produced an account
    returned,       \* history: the material each composite key has returned so far
    result,         \* the outcome of the last operation (what it returned or threw)
    inputFile,      \* network-input.yml: the NetworkInputFile
    networkFile,    \* network.yml: the NetworkFile, if any
    presetFile,     \* custom-network-preset.yml: the stored network preset
    folders,        \* the folders that exist on disk, as <<directory, name>> pairs
    toolkitCalls,   \* the calls made to the external toolkit (BootstrapService)
    workingDir,     \* the working directory the services were constructed with
    secondRun,      \* an independent run over a copy of the same files, if any
    keyStore,       \* the KeyStore object a command holds: what it is and what it has done
    resolver,       \* the NetworkAccountResolver of a node: its call in progress, if any
    pending         \* the calls in progress on a LazyKeyStore and the stores its factory made

vars == <<storage, disk, generated, returned, result, inputFile, networkFile, presetFile,
          folders, toolkitCalls, workingDir, secondRun, keyStore, resolver,
          pending>>

keyStoreVars == <<storage, disk, generated, returned>>
topologyVars == <<inputFile, networkFile>>
genesisVars == <<presetFile, folders, toolkitCalls, workingDir>>
comparisonVars == <<secondRun>>
lifecycleVars == <<keyStore, pending>>
resolverVars == <<resolver>>

\* An optional value (undefined, or a file that does not exist) is None or Some(x).
None == <<>>
Some(x) == <<x>>

\* A NetworkAccountResolver that has not been called: pc is where its call
\* stands ("idle", or "prompt" while inquirer waits for an entry).
NoResolver ==
    [node |-> 0, pc |-> "idle", account |-> None, prompts |-> 0, entered |-> None,
     keyStoreCalls |-> 0]

\* The calls a command may have in progress on its key store at one time.
MaxCalls == 2
CallIds == 1..MaxCalls

\* No call in progress: pc is where a call stands ("idle", "factory" while it
\* awaits this.factory(), "delegated" once getDelegate has returned, "done",
\* "failed"), delegate the store getDelegate returned to it; memories holds
\* the storage of every store the factory has made, in the order made.
NoPending ==
    [calls |-> [c \in CallIds |-> [pc |-> "idle", delegate |-> 0]], memories |-> <<>>]

-----------------------------------------------------------------------------
(* Bounds of the model. *)

\* Account.generateNewAccount is called at most this many times in a key-store run.
MaxGenerated == 2
\* Node numbers used by the key-store operations range over 1..MaxNodeNumber.
MaxNodeNumber == 2
\* Voting epochs range over 1..MaxEpoch.
MaxEpoch == 2

-----------------------------------------------------------------------------
(* Text helpers. *)

Digits == <<"0", "1", "2", "3", "4", "5", "6", "7", "8", "9">>

\* String(num) for a natural number.
RECURSIVE ToStr(_)
ToStr(n) == IF n < 10 THEN <<Digits[n + 1]>> ELSE ToStr(n \div 10) \o <<Digits[(n % 10) + 1]>>

RECURSIVE PadStart(_, _, _)
PadStart(s, places, ch) == IF Len(s) >= places THEN s ELSE PadStart(<<ch>> \o s, places, ch)

zeroPad_Unpadded(num, places) == ToStr(num)

\* NetworkUtils.zeroPad: String(num).padStart(places, '0').
zeroPad(num, places) == PadStart(ToStr(num), places, "0")

Put(f, k, v) == [x \in (DOMAIN f) \cup {k} |-> IF x = k THEN v ELSE f[x]]

EmptyMap == [x \in {} |-> x]

-----------------------------------------------------------------------------
(* Accounts (symbol-sdk Account, as the key store uses it). *)

\* The public key an Account derives from its private key.
PublicKeyOf(privateKey) == (privateKey * 7 + 3) % 251
\* account.address.plain(): derived from the public key.
AddressOf(publicKey) == (publicKey * 5 + 1) % 251

\* Account.createFromPrivateKey(privateKey, networkType)
createFromPrivateKey(privateKey) ==
    [privateKey |-> privateKey,
     publicKey |-> PublicKeyOf(privateKey),
     address |-> AddressOf(PublicKeyOf(privateKey))]

\* LocalFileKeyStore.toStored
toStored(account) ==
    [privateKey |-> account.privateKey,
     publicKey |-> account.publicKey,
     address |-> account.address]

\* The n-th account Account.generateNewAccount produces: random keys never repeat.
FreshPrivateKey(n) == n

\* Private keys an operator types in (saveNetworkAccount).
UserPrivateKeys == {101}


-----------------------------------------------------------------------------
(* The error taxonomy: each name stands for the Error the code throws.      *)

AccountNotFound == "AccountNotFound"          \* 'Account cannot be generated!!'
EpochMismatch == "EpochMismatch"              \* 'Unexpected startEpoch/endEpoch on stored file...'
DuplicateIdentifier == "DuplicateIdentifier"  \* 'Duplicated friendlyNames!!', 'Duplicated hostname!!'
AlreadyGenerated == "AlreadyGenerated"        \* 'The nemesis block has been previously generated...'
StorageFileMissing == "StorageFileMissing"    \* 'Storage file ... does not exist!'
UnreadableStorageFile == "UnreadableStorageFile"  \* YamlUtils.loadYaml throws
ValidationError == "ValidationError"          \* '... must be resolved!'
NoCandidateNode == "NoCandidateNode"          \* 'No Candidate Node!!'
UnresolvedConfigValue == "UnresolvedConfigValue" \* '... could not be resolved', '... must be resolved!'
NotNewNetwork == "NotNewNetwork"              \* 'You are creating nodes for an existing network...'

-----------------------------------------------------------------------------
(* Base64, as Buffer.from(bytes).toString('base64') and                     *)
(* Buffer.from(text, 'base64') compute it.  A byte is a number 0..255, a    *)
(* base64 character is its sextet 0..63, and Base64Pad stands for '='.      *)

Base64Pad == 64

Sextets(n) == <<n \div 262144, (n \div 4096) % 64, (n \div 64) % 64, n % 64>>

RECURSIVE Base64Encode(_)
Base64Encode(bytes) ==
    IF Len(bytes) = 0 THEN <<>>
    ELSE IF Len(bytes) = 1 THEN
        LET q == Sextets(bytes[1] * 65536) IN <<q[1], q[2], Base64Pad, Base64Pad>>
    ELSE IF Len(bytes) = 2 THEN
        LET q == Sextets(bytes[1] * 65536 + bytes[2] * 256) IN <<q[1], q[2], q[3], Base64Pad>>
    ELSE Sextets(bytes[1] * 65536 + bytes[2] * 256 + bytes[3])
            \o Base64Encode(SubSeq(bytes, 4, Len(bytes)))

RECURSIVE Base64Decode_DropsPaddedGroup(_)
Base64Decode_DropsPaddedGroup(text) ==
    IF Len(text) < 4 THEN <<>>
    ELSE LET c == SubSeq(text, 1, 4)
             n == c[1] * 262144 + c[2] * 4096 + c[3] * 64 + c[4]
         IN IF c[3] = Base64Pad \/ c[4] = Base64Pad THEN <<>>
            ELSE <<n \div 65536, (n \div 256) % 256, n % 256>>
                    \o Base64Decode_DropsPaddedGroup(SubSeq(text, 5, Len(text)))

RECURSIVE Base64Decode(_)
Base64Decode(text) ==
    IF Len(text) < 4 THEN <<>>
    ELSE LET c == SubSeq(text, 1, 4)
             v(i) == IF c[i] = Base64Pad THEN 0 ELSE c[i]
             n == v(1) * 262144 + v(2) * 4096 + v(3) * 64 + v(4)
             group == IF c[3] = Base64Pad THEN <<n \div 65536>>
                      ELSE IF c[4] = Base64Pad THEN <<n \div 65536, (n \div 256) % 256>>
                      ELSE <<n \div 65536, (n \div 256) % 256, n % 256>>
         IN group \o Base64Decode(SubSeq(text, 5, Len(text)))

-----------------------------------------------------------------------------
(* Voting key files (symbol-bootstrap VotingUtils, as the key store calls   *)
(* it).  The file is a byte sequence: the two epochs, the voting public key *)
(* and a byte standing for the signed key material.                         *)

\* votingUtils.createVotingFile(privateKey, startEpoch, endEpoch)
createVotingKeyFile(privateKey, startEpoch, endEpoch) ==
    <<startEpoch, endEpoch, PublicKeyOf(privateKey), (privateKey + startEpoch + endEpoch) % 256>>

\* votingUtils.readVotingFile(privateFileContent)
readVotingFile(privateFileContent) ==
    [publicKey |-> privateFileContent[3],
     startEpoch |-> privateFileContent[1],
     endEpoch |-> privateFileContent[2]]

\* { ...votingFile, privateFileContent }
VotingKeyFileContent(votingFile, privateFileContent) ==
    [publicKey |-> votingFile.publicKey,
     startEpoch |-> votingFile.startEpoch,
     endEpoch |-> votingFile.endEpoch,
     privateFileContent |-> privateFileContent]

-----------------------------------------------------------------------------
(* LocalFileKeyStore.  An operation is an operator from the store's state   *)
(* ks = [storage, disk, generated] to its outcome [status, ks, value]: the  *)
(* state it leaves and what it returns, or the error it throws.             *)

NetworkAccountNames ==
    {"founder", "faucet", "nemesisSigner", "harvestNetworkFeeSink",
     "mosaicRentalFeeSink", "namespaceRentalFeeSink"}

\* symbol-bootstrap's KeyName values the services ask for.
KeyNames == {"Main", "VRF", "Remote"}

\* const defaultValue = { nodes: {}, network: {}, votingFiles: {} }
defaultValue == [network |-> EmptyMap, nodes |-> EmptyMap, votingFiles |-> EmptyMap]

LoadStorage_Defaults(document) == defaultValue

\* storedValue[field], or defaultValue[field] where the document has no such field.
Spread(storedValue, field) ==
    IF field \in DOMAIN storedValue THEN storedValue[field] ELSE defaultValue[field]

\* The constructor: this.storage = { ...defaultValue, ...storedValue }.
LoadStorage(document) ==
    IF document = None THEN defaultValue
    ELSE [network |-> Spread(document[1], "network"),
          nodes |-> Spread(document[1], "nodes"),
          votingFiles |-> Spread(document[1], "votingFiles")]

\* No KeyStore object has been made yet.
NoKeyStore ==
    [kind |-> "none", delegate |-> None, instances |-> 0, servedBy |-> 0,
     factoryCalls |-> 0, factoryFailures |-> 0, prompts |-> 0, fileAccesses |-> 0,
     password |-> "undefined", noPassword |-> FALSE]

Returned(ks, value) == [status |-> "ok", ks |-> ks, value |-> Some(value)]
Thrown(ks, error) == [status |-> error, ks |-> ks, value |-> None]

save_NotWritten(ks) == ks

\* LocalFileKeyStore.save: the whole document is rewritten.
save(ks) == [ks EXCEPT !.disk = Some(ks.storage)]

generateNewAccount_NoGuard(generate, count) ==
    [status |-> "ok",
     account |-> Some(createFromPrivateKey(FreshPrivateKey(count + 1))),
     generated |-> count + 1]

\* LocalFileKeyStore.generateNewAccount, given how many accounts were generated before.
generateNewAccount(generate, count) ==
    IF ~generate
    THEN [status |-> AccountNotFound, account |-> None, generated |-> count]
    ELSE [status |-> "ok",
          account |-> Some(createFromPrivateKey(FreshPrivateKey(count + 1))),
          generated |-> count + 1]

\* `${nodeName}-${nodeInformation.number}`
NodeKey(nodeName, number) == nodeName \o <<"-">> \o ToStr(number)

\* `${nodeName}-${nodeInformation.number}-${startEpoch}-${endEpoch}`
VotingKey(nodeName, number, startEpoch, endEpoch) ==
    nodeName \o <<"-">> \o ToStr(number) \o <<"-">> \o ToStr(startEpoch)
        \o <<"-">> \o ToStr(endEpoch)

\* this.storage.network[accountName]
StoredNetworkAccount(st, accountName) ==
    IF accountName \in DOMAIN st.network THEN Some(st.network[accountName]) ELSE None

\* this.storage.nodes[nodeKey]?.[keyName]
StoredNodeAccount(st, nodeKey, keyName) ==
    IF nodeKey \in DOMAIN st.nodes /\ keyName \in DOMAIN st.nodes[nodeKey]
    THEN Some(st.nodes[nodeKey][keyName]) ELSE None

\* this.storage.votingFiles[nodeKey]
StoredVotingFile(st, nodeKey) ==
    IF nodeKey \in DOMAIN st.votingFiles THEN Some(st.votingFiles[nodeKey]) ELSE None

StoredOrGenerated_Regenerates(stored, generate, count) ==
    LET g == generateNewAccount(TRUE, count)
    IN [status |-> "ok", account |-> Some(toStored(g.account[1])), generated |-> g.generated]

\* storedAccount || this.toStored(this.generateNewAccount(generate, networkType))
StoredOrGenerated(stored, generate, count) ==
    IF stored # None
    THEN [status |-> "ok", account |-> stored, generated |-> count]
    ELSE LET g == generateNewAccount(generate, count)
         IN [status |-> g.status,
             account |-> IF g.status = "ok" THEN Some(toStored(g.account[1])) ELSE None,
             generated |-> g.generated]

getNetworkAccount_Regenerates(ks, accountName, generate) ==
    LET g == generateNewAccount(TRUE, ks.generated)
        st == [ks.storage EXCEPT !.network = Put(@, accountName, toStored(g.account[1]))]
    IN Returned(save([storage |-> st, disk |-> ks.disk, generated |-> g.generated]),
                g.account[1])

\* LocalFileKeyStore.getNetworkAccount
getNetworkAccount(ks, accountName, generate) ==
    LET s == StoredOrGenerated(StoredNetworkAccount(ks.storage, accountName), generate, ks.generated)
    IN IF s.status # "ok" THEN Thrown(ks, s.status)
       ELSE LET account == createFromPrivateKey(s.account[1].privateKey)
                st == [ks.storage EXCEPT !.network = Put(@, accountName, toStored(account))]
            IN Returned(save([storage |-> st, disk |-> ks.disk, generated |-> s.generated]),
                        account)

saveNetworkAccount_KeepsStored(ks, accountName, privateKey) ==
    LET kept == IF accountName \in DOMAIN ks.storage.network
                THEN ks.storage.network[accountName]
                ELSE toStored(createFromPrivateKey(privateKey))
    IN [status |-> "ok", value |-> None,
        ks |-> save([ks EXCEPT !.storage.network = Put(@, accountName, kept)])]

\* LocalFileKeyStore.saveNetworkAccount
saveNetworkAccount(ks, accountName, privateKey) ==
    LET st == [ks.storage EXCEPT
                  !.network = Put(@, accountName, toStored(createFromPrivateKey(privateKey)))]
    IN [status |-> "ok", ks |-> save([ks EXCEPT !.storage = st]), value |-> None]

getNodeAccount_ReplacesNode(ks, keyName, nodeName, number, generate) ==
    LET nodeKey == NodeKey(nodeName, number)
        s == StoredOrGenerated(StoredNodeAccount(ks.storage, nodeKey, keyName), generate,
                               ks.generated)
    IN IF s.status # "ok" THEN Thrown(ks, s.status)
       ELSE LET account == createFromPrivateKey(s.account[1].privateKey)
                st == [ks.storage EXCEPT
                          !.nodes = Put(@, nodeKey, Put(EmptyMap, keyName, toStored(account)))]
            IN Returned(save([storage |-> st, disk |-> ks.disk, generated |-> s.generated]),
                        account)

\* LocalFileKeyStore.getNodeAccount
getNodeAccount(ks, keyName, nodeName, number, generate) ==
    LET nodeKey == NodeKey(nodeName, number)
        s == StoredOrGenerated(StoredNodeAccount(ks.storage, nodeKey, keyName), generate,
                               ks.generated)
    IN IF s.status # "ok" THEN Thrown(ks, s.status)
       ELSE LET account == createFromPrivateKey(s.account[1].privateKey)
                ofNode == IF nodeKey \in DOMAIN ks.storage.nodes
                          THEN ks.storage.nodes[nodeKey] ELSE EmptyMap
                st == [ks.storage EXCEPT
                          !.nodes = Put(@, nodeKey, Put(ofNode, keyName, toStored(account)))]
            IN Returned(save([storage |-> st, disk |-> ks.disk, generated |-> s.generated]),
                        account)

EpochsMatch_Unchecked(votingFile, startEpoch, endEpoch) == TRUE

\* The two checks of the stored file: votingFile.startEpoch != startEpoch and
\* votingFile.endEpoch != endEpoch throw.
EpochsMatch(votingFile, startEpoch, endEpoch) ==
    ~(votingFile.startEpoch # startEpoch) /\ ~(votingFile.endEpoch # endEpoch)

\* LocalFileKeyStore.getVotingKeyFile
getVotingKeyFile(ks, nodeName, number, startEpoch, endEpoch) ==
    LET nodeKey == VotingKey(nodeName, number, startEpoch, endEpoch)
        storedFile == StoredVotingFile(ks.storage, nodeKey)
    IN IF storedFile # None
       THEN LET privateFileContent == Base64Decode(storedFile[1].privateFileContent)
                votingFile == readVotingFile(privateFileContent)
            IN IF ~EpochsMatch(votingFile, startEpoch, endEpoch)
               THEN Thrown(ks, EpochMismatch)
               ELSE Returned(ks, VotingKeyFileContent(votingFile, privateFileContent))
       ELSE LET votingAccount == generateNewAccount(TRUE, ks.generated).account[1]
                g == generateNewAccount(TRUE, ks.generated)
                votingFile == [publicKey |-> votingAccount.publicKey,
                               startEpoch |-> startEpoch,
                               endEpoch |-> endEpoch]
                privateFileContent ==
                    createVotingKeyFile(votingAccount.privateKey, startEpoch, endEpoch)
                st == [ks.storage EXCEPT
                          !.votingFiles =
                              Put(@, nodeKey,
                                  [publicKey |-> votingAccount.publicKey,
                                   privateFileContent |-> Base64Encode(privateFileContent)])]
            IN Returned(save([storage |-> st, disk |-> ks.disk, generated |-> g.generated]),
                        VotingKeyFileContent(votingFile, privateFileContent))

-----------------------------------------------------------------------------
(* The key store under arbitrary sequences of calls.                        *)

\* The inputs the calls are drawn from.
AccountNamesCalled == {"founder"}
KeyNamesCalled == {"Main", "VRF"}
NodeNamesCalled == {<<"n", "o", "d", "e">>}
NodeNumbers == 1..MaxNodeNumber
Epochs == 1..MaxEpoch

\* key-store.yml as the init wizard leaves it: the founder key the operator typed in.
SeededDocument ==
    [defaultValue EXCEPT
        !.network = Put(@, "founder", toStored(createFromPrivateKey(101)))]

\* key-store.yml edited by hand: the entry of node 1 for epochs 1-1 holds a file
\* that was made for epochs 1-2.
EditedDocument ==
    [defaultValue EXCEPT
        !.votingFiles =
            Put(@, VotingKey(<<"n", "o", "d", "e">>, 1, 1, 1),
                [publicKey |-> PublicKeyOf(102),
                 privateFileContent |-> Base64Encode(createVotingKeyFile(102, 1, 2))])]

InitialDocuments == {None, Some(SeededDocument), Some(EditedDocument)}

NoArgs ==
    [accountName |-> "", keyName |-> "", nodeName |-> <<>>, number |-> 0,
     generate |-> FALSE, startEpoch |-> 0, endEpoch |-> 0, privateKey |-> 0,
     regenerate |-> FALSE, mustExist |-> FALSE, lazy |-> FALSE, network |-> None]

NoResult ==
    [op |-> "none", key |-> <<"", <<>>, "">>, args |-> NoArgs, status |-> "ok",
     value |-> None, repeat |-> FALSE]

\* The composite keys of the three maps.
NetworkEntry(accountName) == <<"network", <<>>, accountName>>
NodeEntry(nodeName, number, keyName) == <<"nodes", NodeKey(nodeName, number), keyName>>
VotingEntry(nodeName, number, startEpoch, endEpoch) ==
    <<"votingFiles", VotingKey(nodeName, number, startEpoch, endEpoch), "">>

KeyStoreState == [storage |-> storage, disk |-> disk, generated |-> generated]

GetOrGenerateOps == {"getNetworkAccount", "getNodeAccount", "getVotingKeyFile"}

\* The store takes the outcome's state, and the history records what the key returned.
KeyStoreCall(op, key, args, outcome) ==
    /\ outcome.ks.generated <= MaxGenerated
    /\ storage' = outcome.ks.storage
    /\ disk' = outcome.ks.disk
    /\ generated' = outcome.ks.generated
    /\ returned' =
          IF op = "saveNetworkAccount"
          THEN [k \in (DOMAIN returned) \ {key} |-> returned[k]]
          ELSE IF outcome.status = "ok" /\ key \notin DOMAIN returned
          THEN Put(returned, key, outcome.value[1])
          ELSE returned
    /\ result' = [op |-> op, key |-> key, args |-> args, status |-> outcome.status,
                  value |-> outcome.value, repeat |-> key \in DOMAIN returned]
    /\ UNCHANGED <<topologyVars, genesisVars, comparisonVars, lifecycleVars, resolverVars>>

GetNetworkAccount ==
    \E accountName \in AccountNamesCalled, generate \in BOOLEAN :
        KeyStoreCall("getNetworkAccount", NetworkEntry(accountName),
                     [NoArgs EXCEPT !.accountName = accountName, !.generate = generate],
                     getNetworkAccount(KeyStoreState, accountName, generate))

SaveNetworkAccount ==
    \E accountName \in AccountNamesCalled, privateKey \in UserPrivateKeys :
        KeyStoreCall("saveNetworkAccount", NetworkEntry(accountName),
                     [NoArgs EXCEPT !.accountName = accountName, !.privateKey = privateKey],
                     saveNetworkAccount(KeyStoreState, accountName, privateKey))

GetNodeAccount ==
    \E keyName \in KeyNamesCalled, nodeName \in NodeNamesCalled, number \in NodeNumbers,
       generate \in BOOLEAN :
        KeyStoreCall("getNodeAccount", NodeEntry(nodeName, number, keyName),
                     [NoArgs EXCEPT !.keyName = keyName, !.nodeName = nodeName,
                                    !.number = number, !.generate = generate],
                     getNodeAccount(KeyStoreState, keyName, nodeName, number, generate))

\* The epoch ranges asked for: any startEpoch <= endEpoch, and the ranges
\* [1, votingKeyDesiredLifetime] generateNemesis asks for.
EpochRanges == {r \in Epochs \X Epochs : r[1] <= r[2]}
EpochRangesFromOne == {r \in EpochRanges : r[1] = 1}

GetVotingKeyFileIn(ranges) ==
    \E nodeName \in NodeNamesCalled, number \in NodeNumbers, range \in ranges :
        KeyStoreCall("getVotingKeyFile",
                     VotingEntry(nodeName, number, range[1], range[2]),
                     [NoArgs EXCEPT !.nodeName = nodeName, !.number = number,
                                    !.startEpoch = range[1], !.endEpoch = range[2]],
                     getVotingKeyFile(KeyStoreState, nodeName, number, range[1], range[2]))

GetVotingKeyFile == GetVotingKeyFileIn(EpochRanges)

GetVotingKeyFileFromOne == GetVotingKeyFileIn(EpochRangesFromOne)

\* new LocalFileKeyStore(password, false, workingDir) over one of the documents.
InitKeyStore ==
    /\ disk \in InitialDocuments
    /\ storage = LoadStorage(disk)
    /\ generated = 0
    /\ returned = EmptyMap
    /\ result = NoResult
    /\ inputFile = None
    /\ networkFile = None
    /\ presetFile = None
    /\ folders = {}
    /\ toolkitCalls = <<>>
    /\ workingDir = "."
    /\ secondRun = None
    /\ keyStore = NoKeyStore
    /\ pending = NoPending
    /\ resolver = NoResolver

NextKeyStore ==
    \/ GetNetworkAccount
    \/ SaveNetworkAccount
    \/ GetNodeAccount
    \/ GetVotingKeyFileFromOne

\* Every operation of the key store, in any order.
SpecKeyStore == InitKeyStore /\ [][NextKeyStore]_vars

NextVotingFiles == GetVotingKeyFile \/ SaveNetworkAccount

\* The voting key files under every epoch range.
SpecVotingFiles == InitKeyStore /\ [][NextVotingFiles]_vars

-----------------------------------------------------------------------------
(* The node-type catalog (nodesMetadata) and the REST protocols.            *)

NodeMetadataTypes ==
    {"VotingDual", "VotingPeer", "VotingApi", "HarvestingDual", "HarvestingPeer",
     "Services", "Peer", "Api", "HarvestingDemo", "VotingNonHarvestingPeer"}

\* A catalog entry; assembly "" is an entry without a fixed assembly.
Metadata(balances, voting, harvesting, demo, api, peer, services, nickName, assembly) ==
    [balances |-> balances, voting |-> voting, harvesting |-> harvesting, demo |-> demo,
     api |-> api, peer |-> peer, services |-> services, nickName |-> nickName,
     assembly |-> assembly]

nodesMetadata ==
    [t \in NodeMetadataTypes |->
        CASE t = "VotingDual" ->
                Metadata(<<3000000, 150>>, TRUE, TRUE, FALSE, TRUE, TRUE, FALSE, "dual", "")
          [] t = "VotingPeer" ->
                Metadata(<<3000000, 150>>, TRUE, TRUE, FALSE, FALSE, TRUE, FALSE, "beacon", "")
          [] t = "VotingApi" ->
                Metadata(<<3000000, 150>>, TRUE, FALSE, FALSE, FALSE, TRUE, FALSE, "beacon", "")
          [] t = "HarvestingDual" ->
                Metadata(<<1000000, 150>>, FALSE, TRUE, FALSE, TRUE, TRUE, FALSE, "dual", "")
          [] t = "HarvestingPeer" ->
                Metadata(<<1000000, 150>>, FALSE, TRUE, FALSE, FALSE, TRUE, FALSE, "beacon", "")
          [] t = "Services" ->
                Metadata(<<>>, FALSE, FALSE, FALSE, FALSE, FALSE, TRUE, "services", "services")
          [] t = "Peer" ->
                Metadata(<<1000, 0>>, FALSE, FALSE, FALSE, FALSE, TRUE, FALSE, "peer", "")
          [] t = "Api" ->
                Metadata(<<1000, 0>>, FALSE, FALSE, FALSE, TRUE, FALSE, FALSE, "api", "")
          [] t = "HarvestingDemo" ->
                Metadata(<<1000000, 150>>, FALSE, TRUE, TRUE, TRUE, TRUE, FALSE, "demo", "demo")
          [] t = "VotingNonHarvestingPeer" ->
                Metadata(<<51000000, 0>>, TRUE, FALSE, FALSE, FALSE, TRUE, FALSE, "peer", "")]

getAssembly_IgnoresTag(metadata) ==
    IF metadata.api /\ metadata.peer THEN "dual"
    ELSE IF metadata.api THEN "api"
    ELSE "peer"

\* NodeMetadataUtils.getAssembly
getAssembly(metadata) ==
    IF metadata.assembly # "" THEN metadata.assembly
    ELSE IF metadata.api /\ metadata.peer THEN "dual"
    ELSE IF metadata.api THEN "api"
    ELSE "peer"

\* RestProtocol; "undefined" is a group without restProtocol.
RestProtocols == {"undefined", "HttpOnly", "HttpsOnly", "HttpAndHttps"}

\* NetworkUtils.resolveRestUrl
resolveRestUrl(hostname, restProtocol) ==
    IF restProtocol = "HttpOnly"
    THEN <<"h", "t", "t", "p", ":", "/", "/">> \o hostname \o <<":", "3", "0", "0", "0">>
    ELSE <<"h", "t", "t", "p", "s", ":", "/", "/">> \o hostname \o <<":", "3", "0", "0", "1">>

\* NetworkUtils.resolveExplorerUrl
resolveExplorerUrl(hostname) ==
    <<"h", "t", "t", "p", ":", "/", "/">> \o hostname \o <<":", "9", "0">>

-----------------------------------------------------------------------------
(* NetworkConfigurationService.expandNodes.                                 *)

\* The first index at which key occurs in text, or 0.
IndexOf(text, key) ==
    LET hits == {i \in 1..(Len(text) - Len(key) + 1) : SubSeq(text, i, i + Len(key) - 1) = key}
    IN IF hits = {} THEN 0 ELSE CHOOSE i \in hits : \A j \in hits : i <= j

\* pattern.replace(key, value) with a string key: the first occurrence only.
\* (The values substituted hold no "$", so JavaScript's replacement patterns
\* do not come into play.)
Replace(pattern, key, value) ==
    LET i == IndexOf(pattern, key)
    IN IF i = 0 THEN pattern
       ELSE SubSeq(pattern, 1, i - 1) \o value \o SubSeq(pattern, i + Len(key), Len(pattern))

SuffixKey == <<"$", "s", "u", "f", "f", "i", "x">>
NicknameKey == <<"$", "n", "i", "c", "k", "n", "a", "m", "e">>
FriendlyNumberKey ==
    <<"$", "f", "r", "i", "e", "n", "d", "l", "y", "N", "u", "m", "b", "e", "r">>

\* '$suffix-$nickname-$friendlyNumber'
DefaultFriendlyNamePattern ==
    SuffixKey \o <<"-">> \o NicknameKey \o <<"-">> \o FriendlyNumberKey

\* input.friendlyNamePattern || '$suffix-$nickname-$friendlyNumber'
friendlyNamePatternOf(input) ==
    IF input.friendlyNamePattern = <<>> THEN DefaultFriendlyNamePattern
    ELSE input.friendlyNamePattern

\* const regionIndex = 0
regionIndex == 0

\* regionIndex + NetworkUtils.zeroPad(nickNameNumber, 2)
friendlyNumberOf(nickNameNumber) == ToStr(regionIndex) \o zeroPad(nickNameNumber, 2)

\* Object.entries(friendlyNamePatternData).reduce(... pattern.replace(`$${key}`, value) ...)
friendlyNameOf(input, nickname, nickNameNumber) ==
    Replace(Replace(Replace(friendlyNamePatternOf(input), SuffixKey, input.suffix),
                    NicknameKey, nickname),
            FriendlyNumberKey, friendlyNumberOf(nickNameNumber))

\* `${friendlyName}.${input.domain}`
hostnameOf(input, friendlyName) == friendlyName \o <<".">> \o input.domain

customPresetOf_AnyNode(nodeTypeInput, friendlyName, hostname) ==
    LET metadata == nodesMetadata[nodeTypeInput.nodeType]
    IN [privateKeySecurityMode |-> "PROMPT_MAIN_TRANSPORT",
        nodes |-> <<[friendlyName |-> friendlyName, host |-> hostname,
                     voting |-> metadata.voting, harvesting |-> metadata.harvesting,
                     dockerComposeDebugMode |-> FALSE,
                     brokerDockerComposeDebugMode |-> FALSE]>>,
        gateways |->
            IF nodeTypeInput.restProtocol = "HttpAndHttps" THEN Some([openPort |-> TRUE])
            ELSE IF nodeTypeInput.restProtocol = "HttpsOnly" THEN Some([openPort |-> FALSE])
            ELSE None,
        httpsProxies |->
            IF nodeTypeInput.restProtocol \in {"HttpsOnly", "HttpAndHttps"}
            THEN Some([excludeDockerService |-> FALSE])
            ELSE None,
        faucets |->
            IF metadata.demo
            THEN Some([DEFAULT_NODE_CLIENT |->
                           resolveRestUrl(hostname, nodeTypeInput.restProtocol),
                       EXPLORER_URL |-> resolveExplorerUrl(hostname)])
            ELSE None,
        votingKeyDesiredLifetime |-> None]

\* The customPreset of a node: gateways, httpsProxies and faucets are None when
\* the code leaves them unset, and so is votingKeyDesiredLifetime, which only an
\* operator editing network.yml sets.
customPresetOf(nodeTypeInput, friendlyName, hostname) ==
    LET metadata == nodesMetadata[nodeTypeInput.nodeType]
    IN [privateKeySecurityMode |-> "PROMPT_MAIN_TRANSPORT",
        nodes |-> <<[friendlyName |-> friendlyName, host |-> hostname,
                     voting |-> metadata.voting, harvesting |-> metadata.harvesting,
                     dockerComposeDebugMode |-> FALSE,
                     brokerDockerComposeDebugMode |-> FALSE]>>,
        gateways |->
            IF metadata.api /\ nodeTypeInput.restProtocol = "HttpAndHttps"
            THEN Some([openPort |-> TRUE])
            ELSE IF metadata.api /\ nodeTypeInput.restProtocol = "HttpsOnly"
            THEN Some([openPort |-> FALSE])
            ELSE None,
        httpsProxies |->
            IF metadata.api /\ nodeTypeInput.restProtocol \in {"HttpsOnly", "HttpAndHttps"}
            THEN Some([excludeDockerService |-> FALSE])
            ELSE None,
        faucets |->
            IF metadata.demo
            THEN Some([DEFAULT_NODE_CLIENT |->
                           resolveRestUrl(hostname, nodeTypeInput.restProtocol),
                       EXPLORER_URL |-> resolveExplorerUrl(hostname)])
            ELSE None,
        votingKeyDesiredLifetime |-> None]

NodeNumber_PostIncrement(nodeCounter) == nodeCounter

\* number: ++nodeCounter
NodeNumber(nodeCounter) == nodeCounter + 1

\* One pass of the inner loop: acc = [nodes, nodeCounter, counters].
ExpandNode(input, nodeTypeInput, acc) ==
    LET nickname == nodeTypeInput.nickName
        counterIndex == nickname \o ToStr(regionIndex)
        nickNameNumber ==
            (IF counterIndex \in DOMAIN acc.counters THEN acc.counters[counterIndex] ELSE 0) + 1
        friendlyName == friendlyNameOf(input, nickname, nickNameNumber)
        hostname == hostnameOf(input, friendlyName)
        node == [number |-> NodeNumber(acc.nodeCounter),
                 friendlyName |-> friendlyName,
                 assembly |-> getAssembly(nodesMetadata[nodeTypeInput.nodeType]),
                 hostname |-> hostname,
                 customPreset |-> customPresetOf(nodeTypeInput, friendlyName, hostname),
                 nickName |-> nodeTypeInput.nickName,
                 nodeType |-> nodeTypeInput.nodeType,
                 balances |-> nodeTypeInput.balances,
                 restProtocol |-> nodeTypeInput.restProtocol]
    IN [nodes |-> Append(acc.nodes, node),
        nodeCounter |-> acc.nodeCounter + 1,
        counters |-> Put(acc.counters, counterIndex, nickNameNumber)]

\* for (let index = 0; index < total; index++)
RECURSIVE ExpandGroup(_, _, _, _)
ExpandGroup(input, nodeTypeInput, index, acc) ==
    IF ~(index < nodeTypeInput.total) THEN acc
    ELSE ExpandGroup(input, nodeTypeInput, index + 1, ExpandNode(input, nodeTypeInput, acc))

\* for (const nodeTypeInput of nodeTypes)
RECURSIVE ExpandGroups(_, _, _)
ExpandGroups(input, g, acc) ==
    IF g > Len(input.nodeTypes) THEN acc
    ELSE ExpandGroups(input, g + 1, ExpandGroup(input, input.nodeTypes[g], 0, acc))

uniqByLength_Unchecked(nodes, field) == Len(nodes)

\* _.uniqBy(nodes, (node) => node[field]).length
uniqByLength(nodes, field) == Cardinality({nodes[i][field] : i \in 1..Len(nodes)})

\* const { nodeTypes, ...rest } = input; const output = { ...rest, nodes }
NetworkFileOf(input, nodes) ==
    [preset |-> input.preset,
     isNewNetwork |-> input.isNewNetwork,
     nemesisSeedFolder |-> input.nemesisSeedFolder,
     faucetBalances |-> input.faucetBalances,
     additionalCurrencyDistributions |-> input.additionalCurrencyDistributions,
     domain |-> input.domain,
     suffix |-> input.suffix,
     friendlyNamePattern |-> input.friendlyNamePattern,
     customNetworkPreset |-> input.customNetworkPreset,
     nodes |-> nodes]

\* CryptoUtils.removePrivateKeys on a NetworkFile: the private keys an operator
\* may have put into the network's custom preset are dropped.
removePrivateKeys(network) ==
    [network EXCEPT !.customNetworkPreset.nemesisSignerPrivateKey = None]

\* NetworkUtils.saveNetwork: what network.yml holds afterwards.
saveNetwork(network) == Some(removePrivateKeys(network))

\* expandNodes on the input file and the topology file: the outcome and the
\* topology file afterwards.
expandNodes(inputDocument, networkDocument) ==
    IF inputDocument = None
    THEN [status |-> "InputFileMissing", value |-> None, networkFile |-> networkDocument]
    ELSE LET input == inputDocument[1]
             nodes == ExpandGroups(input, 1,
                                   [nodes |-> <<>>, nodeCounter |-> 0, counters |-> EmptyMap]).nodes
         IN IF Len(nodes) # uniqByLength(nodes, "friendlyName")
            THEN [status |-> DuplicateIdentifier, value |-> None, networkFile |-> networkDocument]
            ELSE IF Len(nodes) # uniqByLength(nodes, "hostname")
            THEN [status |-> DuplicateIdentifier, value |-> None, networkFile |-> networkDocument]
            ELSE LET output == NetworkFileOf(input, nodes)
                 IN [status |-> "ok", value |-> Some(output), networkFile |-> saveNetwork(output)]

-----------------------------------------------------------------------------
(* Network presets: the fields of a preset the services read.  A field the  *)
(* preset does not define is None.                                          *)

NoPreset ==
    [nemesisGenerationHashSeed |-> None,
     nemesis |-> None,
     votingKeyDesiredLifetime |-> None,
     nemesisSignerPrivateKey |-> None,
     nemesisSignerPublicKey |-> None,
     harvestNetworkFeeSinkAddress |-> None,
     namespaceRentalFeeSinkAddress |-> None,
     mosaicRentalFeeSinkAddress |-> None,
     nemesisSeedFolder |-> None,
     knownPeers |-> None,
     knownRestGateways |-> None]

\* A NetworkInputFile with the fields expandNodes reads set, and the rest as
\* the init wizard writes them for a new network.
NetworkInput(nodeTypes, friendlyNamePattern) ==
    [preset |-> "custom-network-preset.yml",
     isNewNetwork |-> TRUE,
     nemesisSeedFolder |-> "",
     faucetBalances |-> None,
     additionalCurrencyDistributions |-> None,
     domain |-> <<"d", ".", "c">>,
     suffix |-> <<"s">>,
     friendlyNamePattern |-> friendlyNamePattern,
     customNetworkPreset |-> NoPreset,
     nodeTypes |-> nodeTypes]

-----------------------------------------------------------------------------
(* Topology expansion over a set of input files.                            *)

\* An input file has at most MaxGroups node-type groups of at most MaxTotal nodes.
MaxGroups == 2
MaxTotal == 2

NodeTypeInput(nickName, nodeType, total, balances, restProtocol) ==
    [nickName |-> nickName, nodeType |-> nodeType, total |-> total,
     balances |-> balances, restProtocol |-> restProtocol]

NickNames == {<<"a">>, <<"b">>}

\* The kinds of group the inputs are built from: a node type with the REST
\* protocol and balances chosen for it.
GroupKinds ==
    {<<"VotingDual", "HttpsOnly", <<1000>>>>,
     <<"Peer", "undefined", <<0>>>>,
     <<"HarvestingDemo", "HttpAndHttps", <<500>>>>,
     <<"Services", "undefined", <<>>>>}

NodeTypeInputs ==
    {NodeTypeInput(n, k[1], t, k[3], k[2]) : n \in NickNames, k \in GroupKinds, t \in 0..MaxTotal}

\* The friendlyNamePattern of the inputs: none (the default pattern), a pattern
\* without the nickname, and a pattern without the number.
FriendlyNamePatterns ==
    {<<>>,
     <<"n">> \o FriendlyNumberKey,
     SuffixKey \o <<".">> \o NicknameKey}

RECURSIVE SeqsUpTo(_, _)
SeqsUpTo(S, n) ==
    IF n = 0 THEN {<<>>}
    ELSE LET shorter == SeqsUpTo(S, n - 1)
         IN shorter \cup {Append(q, x) : q \in {r \in shorter : Len(r) = n - 1}, x \in S}

ExpandInputs ==
    {NetworkInput(nodeTypes, pattern) :
        nodeTypes \in SeqsUpTo(NodeTypeInputs, MaxGroups), pattern \in FriendlyNamePatterns}

\* A topology file left by an earlier expansion.
EarlierNetworkFile ==
    expandNodes(Some(NetworkInput(<<NodeTypeInput(<<"a">>, "Peer", 1, <<0>>, "undefined")>>, <<>>)),
                None).networkFile

OperationResult(op, status, value) ==
    [NoResult EXCEPT !.op = op, !.status = status, !.value = value]

ExpandNodes ==
    LET outcome == expandNodes(inputFile, networkFile)
    IN /\ networkFile' = outcome.networkFile
       /\ result' = OperationResult("expandNodes", outcome.status, outcome.value)
       /\ UNCHANGED <<inputFile, keyStoreVars, genesisVars, comparisonVars, lifecycleVars, resolverVars>>

InitExpand ==
    /\ inputFile \in {None} \cup {Some(input) : input \in ExpandInputs}
    /\ networkFile \in {None, EarlierNetworkFile}
    /\ result = NoResult
    /\ disk = None
    /\ storage = LoadStorage(disk)
    /\ generated = 0
    /\ returned = EmptyMap
    /\ presetFile = None
    /\ folders = {}
    /\ toolkitCalls = <<>>
    /\ workingDir = "."
    /\ secondRun = None
    /\ keyStore = NoKeyStore
    /\ pending = NoPending
    /\ resolver = NoResolver

NextExpand == ExpandNodes

\* expandNodes over the input files.
SpecExpand == InitExpand /\ [][NextExpand]_vars

-----------------------------------------------------------------------------
(* The file system of the genesis assembly.  A folder is the pair of the    *)
(* directory it lies in and its name; a relative name that is not joined to *)
(* the working directory resolves in the process's current directory.       *)

CurrentDirectory == "."

\* join(this.workingDir, name)
Join(directory, name) == <<directory, name>>

\* existsSync(name) of a relative name.
existsSync(fs, name) == Join(CurrentDirectory, name) \in fs

\* FileSystemService.deleteFolder
deleteFolder(fs, folder) == fs \ {folder}

\* FileSystemService.copyDir
copyDir(fs, from, to) == fs \cup {to}

NEMESIS_SEED_FOLDER == "nemesis-seed"

\* YamlUtils.isYmlFile: the presets named by a yml file, against the presets
\* bundled with the toolkit.
YmlPresets == {"custom-network-preset.yml"}
BundledPresets == {"testnet"}
isYmlFile(preset) == preset \in YmlPresets

\* A value JavaScript takes as true: defined, and not the number 0.
Truthy(optional) == optional # None /\ optional[1] # 0

\* A text JavaScript takes as true: defined, and not empty.
TruthyText(optional) == optional # None /\ optional[1] # ""

\* A list is true even when empty.
TruthyList(optional) == optional # None

-----------------------------------------------------------------------------
(* ConfigLoader.mergePresets: the fields the second preset defines replace  *)
(* those of the first; the mosaics of nemesis are merged index by index.    *)

Mosaic(divisibility) == [divisibility |-> divisibility]

MergeMosaics(base, custom) ==
    [i \in 1..(IF Len(base) > Len(custom) THEN Len(base) ELSE Len(custom)) |->
        IF i > Len(custom) THEN base[i]
        ELSE IF i > Len(base) THEN custom[i]
        ELSE IF custom[i].divisibility # None THEN custom[i] ELSE base[i]]

MergeNemesis(base, custom) ==
    IF custom = None THEN base
    ELSE IF base = None THEN custom
    ELSE IF custom[1].mosaics = None THEN base
    ELSE IF base[1].mosaics = None THEN custom
    ELSE Some([mosaics |-> Some(MergeMosaics(base[1].mosaics[1], custom[1].mosaics[1]))])

mergePresets(base, custom) ==
    [f \in DOMAIN base |->
        IF f = "nemesis" THEN MergeNemesis(base.nemesis, custom.nemesis)
        ELSE IF custom[f] # None THEN custom[f]
        ELSE base[f]]

\* The accounts updateNetworkPreset asks the store for, in the order of lines
\* 297-300.
PresetAccountNames ==
    <<"nemesisSigner", "harvestNetworkFeeSink", "namespaceRentalFeeSink",
      "mosaicRentalFeeSink">>

\* got = [ks, accounts] after one more getNetworkAccount(networkType, name, true).
WithNetworkAccount(got, accountName, outcome) ==
    [ks |-> outcome.ks, accounts |-> Put(got.accounts, accountName, outcome.value[1])]

GetNextNetworkAccount(got, accountName) ==
    WithNetworkAccount(got, accountName, getNetworkAccount(got.ks, accountName, TRUE))

\* The first n of the lookups, one after the other on the same store.
RECURSIVE GetNetworkAccounts(_, _, _)
GetNetworkAccounts(ks, accountNames, n) ==
    IF n = 0 THEN [ks |-> ks, accounts |-> EmptyMap]
    ELSE GetNextNetworkAccount(GetNetworkAccounts(ks, accountNames, n - 1), accountNames[n])

\* Lines 309-321: writeYaml of the merged preset, which is also returned.
StoreNetworkPreset(ks, toStoreNetworkPreset) ==
    [status |-> "ok", ks |-> ks, presetFile |-> Some(toStoreNetworkPreset),
     value |-> Some(toStoreNetworkPreset)]

\* Lines 301-319: the fields set from the accounts, then the merge with the
\* input's customNetworkPreset.  A NetworkFile has no knownRestGateways or
\* knownPeers, so both are unset.
UpdatedNetworkPreset(networkPreset, networkInput, got) ==
    StoreNetworkPreset(got.ks,
        mergePresets(
            [networkPreset EXCEPT
                !.nemesisSeedFolder = Some(NEMESIS_SEED_FOLDER),
                !.nemesisSignerPublicKey = Some(got.accounts["nemesisSigner"].publicKey),
                !.harvestNetworkFeeSinkAddress =
                    Some(got.accounts["harvestNetworkFeeSink"].address),
                !.namespaceRentalFeeSinkAddress =
                    Some(got.accounts["namespaceRentalFeeSink"].address),
                !.mosaicRentalFeeSinkAddress =
                    Some(got.accounts["mosaicRentalFeeSink"].address),
                !.knownRestGateways = None,
                !.knownPeers = None],
            networkInput.customNetworkPreset))

\* NetworkConfigurationService.updateNetworkPreset(preset, networkInput, saveAsFile)
\* on the store ks and the preset file: the store and the file afterwards, and
\* the preset returned.
updateNetworkPreset(ks, presetDocument, networkInput) ==
    IF presetDocument = None
    THEN [status |-> "PresetFileMissing", ks |-> ks, presetFile |-> presetDocument,
          value |-> None]
    ELSE UpdatedNetworkPreset(presetDocument[1], networkInput,
                              GetNetworkAccounts(ks, PresetAccountNames,
                                                 Len(PresetAccountNames)))

-----------------------------------------------------------------------------
(* NetworkGenesisService.generateNemesis.  A run threads the record         *)
(* [status, ks, knownPeers, knownRestGateways, nemesisBalances,             *)
(* transactions] through the nodes; a step after a throw does nothing.      *)

nodeName == <<"n", "o", "d", "e">>

Pow10(n) == 10 ^ n

\* balances[mosaicIndex] || 0, for the 1-based position i of the mosaic.
BalanceAt(balances, i) == IF i <= Len(balances) THEN balances[i] ELSE 0

RECURSIVE BalanceEntries_Unscaled(_, _, _, _)
BalanceEntries_Unscaled(mosaics, balances, address, i) ==
    IF i > Len(mosaics) THEN [status |-> "ok", entries |-> <<>>]
    ELSE LET nodeBalance == BalanceAt(balances, i)
             later == BalanceEntries_Unscaled(mosaics, balances, address, i + 1)
         IN IF nodeBalance = 0 THEN later
            ELSE IF mosaics[i].divisibility = None
            THEN [status |-> UnresolvedConfigValue, entries |-> <<>>]
            ELSE [status |-> later.status,
                  entries |-> <<[mosaicIndex |-> i - 1,
                                 address |-> address,
                                 amount |-> nodeBalance]>>
                              \o later.entries]

RECURSIVE BalanceEntries_DefaultDivisibility(_, _, _, _)
BalanceEntries_DefaultDivisibility(mosaics, balances, address, i) ==
    IF i > Len(mosaics) THEN [status |-> "ok", entries |-> <<>>]
    ELSE LET nodeBalance == BalanceAt(balances, i)
             divisibility == IF mosaics[i].divisibility = None THEN 0
                             ELSE mosaics[i].divisibility[1]
             later == BalanceEntries_DefaultDivisibility(mosaics, balances, address, i + 1)
         IN IF nodeBalance = 0 THEN later
            ELSE [status |-> "ok",
                  entries |-> <<[mosaicIndex |-> i - 1,
                                 address |-> address,
                                 amount |-> nodeBalance * Pow10(divisibility)]>>
                              \o later.entries]

\* nemesisPreset.mosaics.forEach of lines 134-147: the entries pushed for one
\* address from position i on, or the throw of a balance whose mosaic has no
\* divisibility.
RECURSIVE BalanceEntries(_, _, _, _)
BalanceEntries(mosaics, balances, address, i) ==
    IF i > Len(mosaics) THEN [status |-> "ok", entries |-> <<>>]
    ELSE LET nodeBalance == BalanceAt(balances, i)
             divisibility == mosaics[i].divisibility
         IN IF nodeBalance = 0 THEN BalanceEntries(mosaics, balances, address, i + 1)
            ELSE IF divisibility = None
            THEN [status |-> UnresolvedConfigValue, entries |-> <<>>]
            ELSE LET later == BalanceEntries(mosaics, balances, address, i + 1)
                 IN [status |-> later.status,
                     entries |-> <<[mosaicIndex |-> i - 1,
                                    address |-> address,
                                    amount |-> nodeBalance * Pow10(divisibility[1])]>>
                                 \o later.entries]

\* The forEach of lines 209-222 over the faucet's balances.
FaucetBalanceEntries(mosaics, faucetBalances, address) ==
    BalanceEntries(mosaics, faucetBalances, address, 1)

\* The forEach of lines 227-242 over additionalCurrencyDistributions.
RECURSIVE AdditionalEntries(_, _, _)
AdditionalEntries(mosaics, additional, i) ==
    IF i > Len(mosaics) THEN [status |-> "ok", entries |-> <<>>]
    ELSE IF i > Len(additional) THEN AdditionalEntries(mosaics, additional, i + 1)
    ELSE IF mosaics[i].divisibility = None
    THEN [status |-> UnresolvedConfigValue, entries |-> <<>>]
    ELSE LET later == AdditionalEntries(mosaics, additional, i + 1)
         IN [status |-> later.status,
             entries |-> [d \in 1..Len(additional[i]) |->
                             [mosaicIndex |-> i - 1,
                              address |-> additional[i][d].address,
                              amount |-> additional[i][d].amount
                                            * Pow10(mosaics[i].divisibility[1])]]
                         \o later.entries]

\* The payload of a link transaction signed by the node's main account.
LinkPayload(type, mainAccount, linkedPublicKey, startEpoch, endEpoch, generationHashSeed) ==
    [type |-> type, signer |-> mainAccount.publicKey, linkedPublicKey |-> linkedPublicKey,
     startEpoch |-> startEpoch, endEpoch |-> endEpoch,
     generationHashSeed |-> generationHashSeed]

TransactionInformation(nodeNumber, type, typeNumber, payload) ==
    [nodeNumber |-> nodeNumber, type |-> type, typeNumber |-> typeNumber, payload |-> payload]

\* NetworkUtils.getTransactionKey
getTransactionKey(transaction) ==
    ToStr(transaction.typeNumber) \o <<"_">> \o transaction.type \o <<"_">>
        \o zeroPad(transaction.nodeNumber, 5)

\* _.mapValues(_.keyBy(transactions, getTransactionKey), payload)
RECURSIVE keyByTransactionKey(_, _)
keyByTransactionKey(transactions, n) ==
    IF n = 0 THEN EmptyMap
    ELSE Put(keyByTransactionKey(transactions, n - 1), getTransactionKey(transactions[n]),
             transactions[n].payload)

\* roles.join(',')
RolesOf(metadata) ==
    LET api == IF metadata.api THEN <<"Api">> ELSE <<>>
        peer == IF metadata.peer THEN <<"Peer">> ELSE <<>>
        voting == IF metadata.voting THEN <<"Voting">> ELSE <<>>
    IN api \o peer \o voting

MosaicsOf(networkPreset) == networkPreset.nemesis[1].mosaics[1]

\* Lines 169-192 for a voting node whose lifetime is resolved: the file from
\* the store, then the Voting link.
NodeWithVotingFile(run, node, networkPreset, mainAccount, votingFileData) ==
    IF votingFileData.status # "ok" THEN [run EXCEPT !.status = votingFileData.status]
    ELSE [run EXCEPT
             !.ks = votingFileData.ks,
             !.transactions =
                 Append(@, TransactionInformation(node.number,
                               <<"V", "o", "t", "i", "n", "g">>, 3,
                               LinkPayload("Voting", mainAccount,
                                           votingFileData.value[1].publicKey,
                                           votingFileData.value[1].startEpoch,
                                           votingFileData.value[1].endEpoch,
                                           networkPreset.nemesisGenerationHashSeed[1])))]

\* Lines 170-175.
NodeWithLifetime(run, node, networkPreset, mainAccount, votingKeyDesiredLifetime) ==
    IF ~Truthy(votingKeyDesiredLifetime) THEN [run EXCEPT !.status = UnresolvedConfigValue]
    ELSE NodeWithVotingFile(run, node, networkPreset, mainAccount,
                            getVotingKeyFile(run.ks, nodeName, node.number, 1,
                                             votingKeyDesiredLifetime[1]))

\* Lines 169-170: only a voting node goes on, with its own lifetime or the
\* preset's.
NodeVoting(run, node, networkPreset, mainAccount) ==
    IF ~nodesMetadata[node.nodeType].voting THEN run
    ELSE NodeWithLifetime(run, node, networkPreset, mainAccount,
                          IF Truthy(node.customPreset.votingKeyDesiredLifetime)
                          THEN node.customPreset.votingKeyDesiredLifetime
                          ELSE networkPreset.votingKeyDesiredLifetime)

NodeLinks_WithoutRemote(node, mainAccount, vrfAccount, remoteAccount, generationHashSeed) ==
    <<TransactionInformation(node.number, <<"V", "R", "F">>, 1,
          LinkPayload("VRF", mainAccount, vrfAccount.publicKey, 0, 0, generationHashSeed))>>

\* Lines 149-167: the VRF and Remote links of the node.
NodeLinks(node, mainAccount, vrfAccount, remoteAccount, generationHashSeed) ==
    <<TransactionInformation(node.number, <<"V", "R", "F">>, 1,
          LinkPayload("VRF", mainAccount, vrfAccount.publicKey, 0, 0, generationHashSeed)),
      TransactionInformation(node.number, <<"R", "e", "m", "o", "t", "e">>, 2,
          LinkPayload("Remote", mainAccount, remoteAccount.publicKey, 0, 0,
                      generationHashSeed))>>

\* Lines 134-167: the node's balances, which may throw, then its links.
NodeWithBalances(run, node, networkPreset, mainAccount, vrfAccount, remoteAccount, balances) ==
    IF balances.status # "ok" THEN [run EXCEPT !.status = balances.status]
    ELSE NodeVoting(
             [run EXCEPT
                 !.nemesisBalances = @ \o balances.entries,
                 !.transactions =
                     @ \o NodeLinks(node, mainAccount, vrfAccount, remoteAccount,
                                    networkPreset.nemesisGenerationHashSeed[1])],
             node, networkPreset, mainAccount)

\* Lines 107-147: the peer and the REST gateway of the node, then its balances.
NodeWithRemote(run, node, networkPreset, mainAccount, vrfAccount, remote) ==
    NodeWithBalances(
        [run EXCEPT
            !.ks = remote.ks,
            !.knownPeers =
                Append(@, [publicKey |-> mainAccount.publicKey,
                           host |-> node.hostname,
                           port |-> 7900,
                           name |-> node.friendlyName,
                           roles |-> RolesOf(nodesMetadata[node.nodeType])]),
            !.knownRestGateways =
                IF nodesMetadata[node.nodeType].api
                THEN Append(@, resolveRestUrl(node.hostname, node.restProtocol))
                ELSE @],
        node, networkPreset, mainAccount, vrfAccount, remote.value[1],
        BalanceEntries(MosaicsOf(networkPreset), node.balances, mainAccount.address, 1))

\* Line 106.
NodeWithVrf(run, node, networkPreset, mainAccount, vrf) ==
    NodeWithRemote(run, node, networkPreset, mainAccount, vrf.value[1],
                   getNodeAccount(vrf.ks, "Remote", nodeName, node.number, TRUE))

NodeWithMain_RemoteFirst(run, node, networkPreset, main) ==
    LET remote == getNodeAccount(main.ks, "Remote", nodeName, node.number, TRUE)
        vrf == getNodeAccount(remote.ks, "VRF", nodeName, node.number, TRUE)
    IN NodeWithRemote(run, node, networkPreset, main.value[1], vrf.value[1],
                      [remote EXCEPT !.ks = vrf.ks])

\* Line 105.
NodeWithMain(run, node, networkPreset, main) ==
    NodeWithVrf(run, node, networkPreset, main.value[1],
                getNodeAccount(main.ks, "VRF", nodeName, node.number, TRUE))

NodeStep_ServicesIncluded(run, node, networkPreset) ==
    IF run.status # "ok" THEN run
    ELSE NodeWithMain(run, node, networkPreset,
                      getNodeAccount(run.ks, "Main", nodeName, node.number, TRUE))

\* The body of the loop over input.nodes (lines 96-192) for one node; each
\* account comes from the store the lookup before it has left.
NodeStep(run, node, networkPreset) ==
    IF run.status # "ok" \/ nodesMetadata[node.nodeType].services THEN run
    ELSE NodeWithMain(run, node, networkPreset,
                      getNodeAccount(run.ks, "Main", nodeName, node.number, TRUE))

\* for (const node of input.nodes)
RECURSIVE NodeSteps(_, _, _, _)
NodeSteps(run, nodes, n, networkPreset) ==
    IF n = 0 THEN run
    ELSE NodeStep(NodeSteps(run, nodes, n - 1, networkPreset), nodes[n], networkPreset)

\* nemesisCustomPreset (lines 245-273)
nemesisCustomPreset(mosaics, nemesisSigner, founderAccount, faucetAccount, balances, transactions) ==
    [nemesisSeedFolder |-> "",
     nodes |-> <<[voting |-> FALSE, excludeFromNemesis |-> TRUE,
                  friendlyName |-> "nemesis-private-node"]>>,
     nemesis |->
        [nemesisSignerPrivateKey |-> nemesisSigner.privateKey,
         mosaics |->
            [index \in 1..Len(mosaics) |->
                [accounts |-> <<founderAccount.publicKey>>,
                 currencyDistributions |->
                    LET ofMosaic == SelectSeq(balances,
                                              LAMBDA n : n.mosaicIndex = index - 1)
                    IN [k \in 1..Len(ofMosaic) |->
                           [address |-> ofMosaic[k].address, amount |-> ofMosaic[k].amount]]]],
         transactions |-> transactions],
     faucets |-> <<[repeat |-> IF faucetAccount # None THEN 1 ELSE 0,
                    FAUCET_PRIVATE_KEY |->
                        IF faucetAccount # None THEN Some(faucetAccount[1].privateKey)
                        ELSE None]>>]

\* input.nodes.find(async (n) => nodesMetadata[n.nodeType].harvesting): the
\* callback returns a promise, which find takes as true for the first node.
findAsync(nodes) == IF Len(nodes) = 0 THEN None ELSE Some(nodes[1])

ToolkitCall(call, candidate, customPresetObject) ==
    [call |-> call, candidate |-> candidate, customPresetObject |-> customPresetObject]

\* What a run leaves behind and returns: the key store, the three files, the
\* folders and the calls it made to the external toolkit.
GenesisOutcome(status, ks, w, value) ==
    [status |-> status, ks |-> ks, networkFile |-> w.networkFile,
     presetFile |-> w.presetFile, folders |-> w.folders, toolkitCalls |-> w.toolkitCalls,
     value |-> value]

\* Lines 283-309: config and compose of the external toolkit, then the seed
\* copied into the working directory and the topology saved with its folder.
CallToolkit(w, ks, input, config, toolkitOk) ==
    IF ~toolkitOk
    THEN GenesisOutcome("ToolkitFailed", ks, [w EXCEPT !.toolkitCalls = <<config>>], None)
    ELSE GenesisOutcome("ok", ks,
             [w EXCEPT
                 !.toolkitCalls = <<config, ToolkitCall("compose", 0, None)>>,
                 !.folders =
                     copyDir(@ \cup {Join(w.workingDir, "nemesis-target")},
                             Join(w.workingDir, "nemesis-target"),
                             Join(w.workingDir, NEMESIS_SEED_FOLDER)),
                 !.networkFile =
                     saveNetwork([input EXCEPT !.nemesisSeedFolder = NEMESIS_SEED_FOLDER])],
             Some(Join(w.workingDir, "nemesis-target")))

\* Lines 276-296: the candidate node and the descriptor go to service.config.
WithCandidate(w, ks, input, descriptor, node, toolkitOk) ==
    IF node = None THEN GenesisOutcome(NoCandidateNode, ks, w, None)
    ELSE CallToolkit(w, ks, input, ToolkitCall("config", node[1].number, Some(descriptor)),
                     toolkitOk)

\* Lines 209-279: the balances of the faucet and the additional distributions,
\* which may throw, then the descriptor and the candidate.
WithDistributions(w, input, networkPreset, founder, run, signer, faucet, ofFaucet, additional, toolkitOk) ==
    IF ofFaucet.status # "ok" THEN GenesisOutcome(ofFaucet.status, faucet.ks, w, None)
    ELSE IF additional.status # "ok" THEN GenesisOutcome(additional.status, faucet.ks, w, None)
    ELSE WithCandidate(w, faucet.ks, input,
             nemesisCustomPreset(MosaicsOf(networkPreset), signer, founder, faucet.value,
                                 run.nemesisBalances \o ofFaucet.entries \o additional.entries,
                                 keyByTransactionKey(run.transactions, Len(run.transactions))),
             findAsync(input.nodes), toolkitOk)

\* Lines 208-243; faucet.value is the faucet account, None when there is none.
WithFaucet(w, input, networkPreset, founderAccount, run, nemesisSigner, faucet, toolkitOk) ==
    WithDistributions(w, input, networkPreset, founderAccount, run, nemesisSigner, faucet,
        IF faucet.value # None
        THEN FaucetBalanceEntries(MosaicsOf(networkPreset), input.faucetBalances[1],
                                  faucet.value[1].address)
        ELSE [status |-> "ok", entries |-> <<>>],
        IF input.additionalCurrencyDistributions # None
        THEN AdditionalEntries(MosaicsOf(networkPreset),
                               input.additionalCurrencyDistributions[1], 1)
        ELSE [status |-> "ok", entries |-> <<>>],
        toolkitOk)

\* Lines 194-207: the preset file rewritten with the peers and gateways, then
\* the faucet account, looked up (and generated) when faucetBalances is true.
WithNemesisSigner(w, input, networkPreset, founderAccount, run, nemesisSigner, toolkitOk) ==
    IF nemesisSigner.status # "ok"
    THEN GenesisOutcome(nemesisSigner.status, nemesisSigner.ks, w, None)
    ELSE WithFaucet(
             [w EXCEPT
                 !.presetFile =
                     Some([networkPreset EXCEPT
                              !.knownPeers = Some(run.knownPeers),
                              !.knownRestGateways = Some(run.knownRestGateways)])],
             input, networkPreset, founderAccount, run, nemesisSigner.value[1],
             IF TruthyList(input.faucetBalances)
             THEN getNetworkAccount(nemesisSigner.ks, "faucet", TRUE)
             ELSE [status |-> "ok", ks |-> nemesisSigner.ks, value |-> None],
             toolkitOk)

\* Line 194, for a run over the nodes that did not throw.
WithNodes(w, input, networkPreset, founderAccount, run, toolkitOk) ==
    IF run.status # "ok" THEN GenesisOutcome(run.status, run.ks, w, None)
    ELSE WithNemesisSigner(w, input, networkPreset, founderAccount, run,
                           getNetworkAccount(run.ks, "nemesisSigner", FALSE), toolkitOk)

\* Lines 95-193.
WithFounder(w, input, networkPreset, founder, toolkitOk) ==
    WithNodes(w, input, networkPreset, founder.value[1],
              NodeSteps([status |-> "ok", ks |-> founder.ks, knownPeers |-> <<>>,
                         knownRestGateways |-> <<>>, nemesisBalances |-> <<>>,
                         transactions |-> <<>>],
                        input.nodes, Len(input.nodes), networkPreset),
              toolkitOk)

\* Lines 83-94: the values that must be resolved from the preset, then the
\* founder account.
WithNetworkPreset(w, input, preset, toolkitOk) ==
    IF preset.status # "ok" THEN GenesisOutcome(preset.status, preset.ks, w, None)
    ELSE IF ~TruthyText(preset.value[1].nemesisGenerationHashSeed)
    THEN GenesisOutcome(UnresolvedConfigValue, preset.ks,
                        [w EXCEPT !.presetFile = preset.presetFile], None)
    ELSE IF preset.value[1].nemesis = None
    THEN GenesisOutcome(UnresolvedConfigValue, preset.ks,
                        [w EXCEPT !.presetFile = preset.presetFile], None)
    ELSE IF preset.value[1].nemesis[1].mosaics = None
    THEN GenesisOutcome(UnresolvedConfigValue, preset.ks,
                        [w EXCEPT !.presetFile = preset.presetFile], None)
    ELSE WithFounder([w EXCEPT !.presetFile = preset.presetFile], input, preset.value[1],
                     getNetworkAccount(preset.ks, "founder", TRUE), toolkitOk)

\* Lines 52-82: the two guards, the three folders deleted, the preset updated.
LoadedNetwork(ks, w, input, regenerate, toolkitOk) ==
    IF ~isYmlFile(input.preset) \/ ~input.isNewNetwork
    THEN GenesisOutcome(NotNewNetwork, ks, w, None)
    ELSE IF input.nemesisSeedFolder # "" /\ existsSync(w.folders, input.nemesisSeedFolder)
            /\ ~regenerate
    THEN GenesisOutcome(AlreadyGenerated, ks, w, None)
    ELSE WithNetworkPreset(
             [w EXCEPT
                 !.folders =
                     deleteFolder(deleteFolder(deleteFolder(@,
                         Join(w.workingDir, "nemesis-target")),
                         Join(w.workingDir, "nodes")),
                         Join(w.workingDir, "distribution"))],
             input, updateNetworkPreset(ks, w.presetFile, input), toolkitOk)

\* NetworkGenesisService.generateNemesis({ regenerate }) on the workspace
\* w = [networkFile, presetFile, folders, workingDir, toolkitCalls] and the
\* store ks; toolkitOk is whether the external toolkit's config succeeds.
generateNemesis(ks, w, regenerate, toolkitOk) ==
    IF w.networkFile = None THEN GenesisOutcome("NetworkFileMissing", ks, w, None)
    ELSE LoadedNetwork(ks, w, w.networkFile[1], regenerate, toolkitOk)

-----------------------------------------------------------------------------
(* Genesis assembly over a set of workspaces.                               *)

\* A topology has at most MaxGenesisGroups groups, of one node each.
MaxGenesisGroups == 2

GenesisNodeTypeInputs ==
    {NodeTypeInput(<<"a">>, "VotingDual", 1, <<1000>>, "HttpsOnly"),
     NodeTypeInput(<<"b">>, "HarvestingPeer", 1, <<1000, 5>>, "undefined"),
     NodeTypeInput(<<"c">>, "Peer", 1, <<0>>, "undefined"),
     NodeTypeInput(<<"d">>, "Services", 1, <<9>>, "undefined")}

\* The faucetBalances of the input: none, the empty list InitService writes when
\* the operator declines a faucet, and a faucet with a balance.
FaucetBalances == {None, Some(<<>>), Some(<<7>>)}

AdditionalCurrencyDistributions ==
    {None, Some(<<<<[address |-> 200, amount |-> 3]>>>>)}

\* How the inputs fund accounts besides the nodes: a faucet choice, or an
\* additional distribution without a faucet.
Fundings ==
    {<<faucetBalances, None>> : faucetBalances \in FaucetBalances}
        \cup {<<None, additional>> : additional \in AdditionalCurrencyDistributions}

\* The inputs of new networks, and one input of nodes for an existing network.
GenesisInputs ==
    {[NetworkInput(nodeTypes, <<>>) EXCEPT
         !.faucetBalances = funding[1],
         !.additionalCurrencyDistributions = funding[2]] :
        nodeTypes \in SeqsUpTo(GenesisNodeTypeInputs, MaxGenesisGroups),
        funding \in Fundings}
    \cup {[NetworkInput(<<NodeTypeInput(<<"c">>, "Peer", 1, <<0>>, "undefined")>>, <<>>) EXCEPT
              !.preset = preset, !.isNewNetwork = FALSE] : preset \in BundledPresets}

\* The custom network preset files: a complete one of one mosaic, one whose
\* second mosaic has no divisibility, and presets lacking the seed, the
\* nemesis, the mosaics or the voting key lifetime.
CompletePreset ==
    [NoPreset EXCEPT
        !.nemesisGenerationHashSeed = Some("seed"),
        !.nemesis = Some([mosaics |-> Some(<<Mosaic(Some(0))>>)]),
        !.votingKeyDesiredLifetime = Some(2)]

PresetFiles ==
    {CompletePreset,
     [CompletePreset EXCEPT
         !.nemesis = Some([mosaics |-> Some(<<Mosaic(Some(2)), Mosaic(None)>>)])],
     [CompletePreset EXCEPT !.nemesisGenerationHashSeed = None],
     [CompletePreset EXCEPT !.nemesis = None],
     [CompletePreset EXCEPT !.nemesis = Some([mosaics |-> None])],
     [CompletePreset EXCEPT !.votingKeyDesiredLifetime = None]}

\* The working directories: the process's current directory, as the commands
\* pass it, and a folder below it, as the tests pass it.
WorkingDirs == {CurrentDirectory, "target/network1"}

Workspace ==
    [networkFile |-> networkFile, presetFile |-> presetFile, folders |-> folders,
     workingDir |-> workingDir, toolkitCalls |-> <<>>]

GenerateNemesis ==
    \E regenerate \in BOOLEAN, toolkitOk \in BOOLEAN :
        LET outcome == generateNemesis(KeyStoreState, Workspace, regenerate, toolkitOk)
        IN /\ storage' = outcome.ks.storage
           /\ disk' = outcome.ks.disk
           /\ generated' = outcome.ks.generated
           /\ networkFile' = outcome.networkFile
           /\ presetFile' = outcome.presetFile
           /\ folders' = outcome.folders
           /\ toolkitCalls' = outcome.toolkitCalls
           /\ result' = [OperationResult("generateNemesis", outcome.status, outcome.value)
                            EXCEPT !.args.regenerate = regenerate]
           /\ UNCHANGED <<inputFile, workingDir, returned, comparisonVars, lifecycleVars, resolverVars>>

InitGenesis ==
    /\ inputFile \in {Some(input) : input \in GenesisInputs}
    /\ networkFile = expandNodes(inputFile, None).networkFile
    /\ presetFile \in {Some(preset) : preset \in PresetFiles}
    /\ workingDir \in WorkingDirs
    /\ folders = {Join(workingDir, "nodes")}
    /\ toolkitCalls = <<>>
    /\ disk \in {None, Some(SeededDocument)}
    /\ storage = LoadStorage(disk)
    /\ generated = 0
    /\ returned = EmptyMap
    /\ result = NoResult
    /\ secondRun = None
    /\ keyStore = NoKeyStore
    /\ pending = NoPending
    /\ resolver = NoResolver

NextGenesis == GenerateNemesis

\* generateNemesis, any number of times, over the workspaces.
SpecGenesis == InitGenesis /\ [][NextGenesis]_vars

-----------------------------------------------------------------------------
(* Properties of the key store.                                             *)

AccountGetOps == {"getNetworkAccount", "getNodeAccount"}

\* The stored account a getNetworkAccount / getNodeAccount call r looks up in st.
LookedUpAccount(st, r) ==
    IF r.op = "getNetworkAccount"
    THEN StoredNetworkAccount(st, r.args.accountName)
    ELSE StoredNodeAccount(st, NodeKey(r.args.nodeName, r.args.number), r.args.keyName)

\* Every private key the storage holds.
StoredPrivateKeys(st) ==
    {st.network[a].privateKey : a \in DOMAIN st.network}
        \cup UNION {{st.nodes[n][k].privateKey : k \in DOMAIN st.nodes[n]} : n \in DOMAIN st.nodes}

\* The epoch range the file stored under a voting key decodes to.
StoredRange(st, nodeKey) ==
    LET votingFile == readVotingFile(Base64Decode(st.votingFiles[nodeKey].privateFileContent))
    IN <<votingFile.startEpoch, votingFile.endEpoch>>

\* C1: once a get-or-generate call has returned material for a composite key,
\* every later get-or-generate call with that key succeeds, returns the identical
\* material and generates no account (the history forgets a role when
\* saveNetworkAccount overwrites it).
C1_GetOrGenerateIdempotent ==
    [][\A k \in DOMAIN returned :
          (result'.op \in GetOrGenerateOps /\ result'.key = k)
              => /\ result'.status = "ok"
                 /\ result'.value = Some(returned[k])
                 /\ generated' = generated]_vars

\* C1 witness: an account call on a key that had already returned material, made
\* again after the store generated accounts.
C1_Witness ==
    /\ result.op \in AccountGetOps
    /\ result.repeat
    /\ result.status = "ok"
    /\ generated >= 1

\* C2 as stated: a call for a node that has a stored voting key file of another
\* epoch range than the requested one fails with EpochMismatch.
C2_OtherRangeFails ==
    [][(/\ result'.op = "getVotingKeyFile"
        /\ \E r \in EpochRanges :
              LET nodeKey == VotingKey(result'.args.nodeName, result'.args.number, r[1], r[2])
              IN /\ nodeKey \in DOMAIN storage.votingFiles
                 /\ StoredRange(storage, nodeKey)
                        # <<result'.args.startEpoch, result'.args.endEpoch>>)
          => result'.status = EpochMismatch]_vars

\* C2 amended: getVotingKeyFile fails with EpochMismatch exactly when a file is
\* stored under the requested composite key and decodes to another epoch range,
\* and then it changes nothing; when no file is stored under the requested key it
\* succeeds and stores one under that key, keeping the files of every other key.
C2_MismatchOnlyUnderRequestedKey ==
    [][result'.op = "getVotingKeyFile" =>
          LET a == result'.args
              nodeKey == VotingKey(a.nodeName, a.number, a.startEpoch, a.endEpoch)
              stored == nodeKey \in DOMAIN storage.votingFiles
          IN /\ (result'.status = EpochMismatch)
                    <=> (stored /\ StoredRange(storage, nodeKey) # <<a.startEpoch, a.endEpoch>>)
             /\ result'.status = EpochMismatch => UNCHANGED <<storage, disk, generated>>
             /\ ~stored =>
                    /\ result'.status = "ok"
                    /\ DOMAIN storage'.votingFiles = DOMAIN storage.votingFiles \cup {nodeKey}
                    /\ \A k \in DOMAIN storage.votingFiles :
                          storage'.votingFiles[k] = storage.votingFiles[k]]_vars

\* C2 witness: a call failed with EpochMismatch.
C2_Witness ==
    /\ result.op = "getVotingKeyFile"
    /\ result.status = EpochMismatch

\* C7: a getNetworkAccount or getNodeAccount call for an absent key fails with
\* AccountNotFound and changes neither the storage nor the document when generate
\* is false; when generate is true it generates one account with a private key the
\* store did not hold, stores it under the key, persists it and returns it.
C7_AbsentAccount ==
    [][(result'.op \in AccountGetOps /\ LookedUpAccount(storage, result') = None) =>
          IF result'.args.generate
          THEN /\ result'.status = "ok"
               /\ generated' = generated + 1
               /\ result'.value[1].privateKey \notin StoredPrivateKeys(storage)
               /\ result'.value[1] = createFromPrivateKey(result'.value[1].privateKey)
               /\ LookedUpAccount(storage', result') = Some(toStored(result'.value[1]))
               /\ disk' = Some(storage')
          ELSE /\ result'.status = AccountNotFound
               /\ result'.value = None
               /\ UNCHANGED <<storage, disk, generated>>]_vars

\* C7 witness: a node account call with generate false failed on a store that
\* already holds generated accounts.
C7_Witness ==
    /\ result.op = "getNodeAccount"
    /\ ~result.args.generate
    /\ result.status = AccountNotFound
    /\ generated >= 1
    /\ disk # None

\* C8: a getVotingKeyFile call with no file stored under its key generates one
\* voting account and returns a file covering exactly [startEpoch, endEpoch],
\* storing its base64 text and public key under the key and persisting the store;
\* a later call with the same four values returns the same public key, range and
\* bytes and generates nothing.
C8_VotingKeyFileRoundTrip ==
    [][result'.op = "getVotingKeyFile" =>
          LET a == result'.args
              nodeKey == VotingKey(a.nodeName, a.number, a.startEpoch, a.endEpoch)
              entry == VotingEntry(a.nodeName, a.number, a.startEpoch, a.endEpoch)
              file == result'.value[1]
          IN /\ nodeKey \notin DOMAIN storage.votingFiles =>
                    /\ result'.status = "ok"
                    /\ generated' = generated + 1
                    /\ file.startEpoch = a.startEpoch /\ file.endEpoch = a.endEpoch
                    /\ readVotingFile(file.privateFileContent) =
                          [publicKey |-> file.publicKey, startEpoch |-> a.startEpoch,
                           endEpoch |-> a.endEpoch]
                    /\ storage'.votingFiles[nodeKey] =
                          [publicKey |-> file.publicKey,
                           privateFileContent |-> Base64Encode(file.privateFileContent)]
                    /\ disk' = Some(storage')
             /\ entry \in DOMAIN returned =>
                    /\ result'.status = "ok"
                    /\ file = returned[entry]
                    /\ file.startEpoch = a.startEpoch /\ file.endEpoch = a.endEpoch
                    /\ generated' = generated]_vars

\* C8 witness: a second call with the same four values, on a range of two epochs.
C8_Witness ==
    /\ result.op = "getVotingKeyFile"
    /\ result.repeat
    /\ result.status = "ok"
    /\ result.args.startEpoch < result.args.endEpoch

-----------------------------------------------------------------------------
(* Properties of the topology expansion.                                    *)

NodesOf(document) == document[1].nodes

UniqueBy(nodes, field) ==
    \A i, j \in 1..Len(nodes) : nodes[i][field] = nodes[j][field] => i = j

RECURSIVE SumTotals(_, _)
SumTotals(nodeTypes, g) ==
    IF g = 0 THEN 0 ELSE SumTotals(nodeTypes, g - 1) + nodeTypes[g].total

\* C5: for every input file, a call of expandNodes either succeeds, and then
\* network.yml holds the returned topology, in which no two nodes share a
\* friendlyName and no two nodes share a hostname, or it fails with
\* DuplicateIdentifier and network.yml is what it was before the call (absent
\* if it was absent).
C5_UniqueOrAtomicFailure ==
    [][(result'.op = "expandNodes" /\ inputFile # None)
          => \/ /\ result'.status = "ok"
                /\ networkFile' # None
                /\ NodesOf(networkFile') = NodesOf(result'.value)
                /\ UniqueBy(NodesOf(networkFile'), "friendlyName")
                /\ UniqueBy(NodesOf(networkFile'), "hostname")
             \/ /\ result'.status = DuplicateIdentifier
                /\ networkFile' = networkFile]_vars

\* An expansion of two or more nodes failed on a duplicate while an earlier
\* topology file was on disk.
C5_Witness ==
    /\ result.op = "expandNodes"
    /\ result.status = DuplicateIdentifier
    /\ networkFile = EarlierNetworkFile
    /\ SumTotals(inputFile[1].nodeTypes, Len(inputFile[1].nodeTypes)) >= 2

\* C10: a successful expandNodes returns exactly sum(group.total) nodes; the
\* i-th node of the list has number i; and the nodes of the g-th group are the
\* total(g) consecutive nodes that follow those of the groups declared before
\* it, each carrying the group's nickName, nodeType, balances and restProtocol.
C10_SequentialNumbering ==
    (result.op = "expandNodes" /\ result.status = "ok")
        => LET nodeTypes == inputFile[1].nodeTypes
               nodes == NodesOf(result.value)
           IN /\ Len(nodes) = SumTotals(nodeTypes, Len(nodeTypes))
              /\ \A i \in 1..Len(nodes) : nodes[i].number = i
              /\ \A g \in 1..Len(nodeTypes) :
                    \A index \in 1..nodeTypes[g].total :
                        LET node == nodes[SumTotals(nodeTypes, g - 1) + index]
                        IN /\ node.nickName = nodeTypes[g].nickName
                           /\ node.nodeType = nodeTypes[g].nodeType
                           /\ node.balances = nodeTypes[g].balances
                           /\ node.restProtocol = nodeTypes[g].restProtocol

\* A successful expansion of two groups of different node types, the first of
\* them with two nodes.
C10_Witness ==
    /\ result.op = "expandNodes"
    /\ result.status = "ok"
    /\ Len(inputFile[1].nodeTypes) = 2
    /\ inputFile[1].nodeTypes[1].total = 2
    /\ inputFile[1].nodeTypes[2].total >= 1
    /\ inputFile[1].nodeTypes[1].nodeType # inputFile[1].nodeTypes[2].nodeType
    /\ Len(NodesOf(result.value)) >= 3

-----------------------------------------------------------------------------
(* Properties of the genesis assembly.                                      *)

TopologyNodes == NodesOf(networkFile)

HarvestingNodes ==
    {n \in 1..Len(TopologyNodes) : nodesMetadata[TopologyNodes[n].nodeType].harvesting}

\* C3: after generateNemesis, the node handed to the external toolkit as build
\* candidate is a harvesting-capable node of the topology, and on a topology
\* without a harvesting-capable node the run has failed and made no call to the
\* external toolkit.
C3_HarvestingCandidate ==
    result.op = "generateNemesis"
        => /\ toolkitCalls # <<>>
                => \E n \in HarvestingNodes : TopologyNodes[n].number = toolkitCalls[1].candidate
           /\ HarvestingNodes = {} => (result.status # "ok" /\ toolkitCalls = <<>>)

\* C4: a generateNemesis with regenerate=false that follows a successful
\* generateNemesis fails with AlreadyGenerated and leaves the folders, the
\* network preset file, the key store and the topology file as they were,
\* whatever the working directory.
C4_RegenerationGuard ==
    [][(/\ result.op = "generateNemesis"
        /\ result.status = "ok"
        /\ result'.op = "generateNemesis"
        /\ ~result'.args.regenerate)
          => /\ result'.status = AlreadyGenerated
             /\ UNCHANGED <<folders, presetFile, storage, disk, networkFile>>]_vars

\* The entries the nodes' non-zero balances give for the mosaic at position i.
NodeDistributions(mosaics, i) ==
    LET funded == SelectSeq(TopologyNodes,
                            LAMBDA node : /\ ~nodesMetadata[node.nodeType].services
                                          /\ BalanceAt(node.balances, i) # 0)
    IN [k \in 1..Len(funded) |->
           [address |-> storage.nodes[NodeKey(nodeName, funded[k].number)]["Main"].address,
            amount |-> BalanceAt(funded[k].balances, i) * Pow10(mosaics[i].divisibility[1])]]

\* C6: for a topology that declares no faucet (faucetBalances absent or the
\* empty list) and no additional distribution, the descriptor generateNemesis
\* hands to the toolkit has faucet repeat 0 and, for every mosaic, exactly the
\* entries of the nodes' non-zero balances.
C6_NoFaucet ==
    (/\ result.op = "generateNemesis"
     /\ toolkitCalls # <<>>
     /\ networkFile[1].faucetBalances \in {None, Some(<<>>)}
     /\ networkFile[1].additionalCurrencyDistributions = None)
        => LET descriptor == toolkitCalls[1].customPresetObject[1]
               mosaics == presetFile[1].nemesis[1].mosaics[1]
           IN /\ descriptor.faucets[1].repeat = 0
              /\ \A i \in 1..Len(mosaics) :
                    descriptor.nemesis.mosaics[i].currencyDistributions
                        = NodeDistributions(mosaics, i)

\* The preset the run resolves its values from.
ResolvedPreset == mergePresets(presetFile[1], networkFile[1].customNetworkPreset)

SeedUnresolved == ~TruthyText(ResolvedPreset.nemesisGenerationHashSeed)

MosaicsUnresolved ==
    ResolvedPreset.nemesis = None \/ ResolvedPreset.nemesis[1].mosaics = None

\* A node's non-zero balance, a faucet's non-zero balance or an additional
\* distribution is in a mosaic without divisibility.
DivisibilityUnresolved ==
    /\ ~MosaicsUnresolved
    /\ LET mosaics == ResolvedPreset.nemesis[1].mosaics[1]
           input == networkFile[1]
       IN \E i \in 1..Len(mosaics) :
             /\ mosaics[i].divisibility = None
             /\ \/ \E n \in 1..Len(input.nodes) :
                      /\ ~nodesMetadata[input.nodes[n].nodeType].services
                      /\ BalanceAt(input.nodes[n].balances, i) # 0
                \/ /\ input.faucetBalances # None
                   /\ BalanceAt(input.faucetBalances[1], i) # 0
                \/ /\ input.additionalCurrencyDistributions # None
                   /\ i <= Len(input.additionalCurrencyDistributions[1])

\* A voting node has no votingKeyDesiredLifetime of its own and the preset has none.
LifetimeUnresolved ==
    \E n \in 1..Len(TopologyNodes) :
        /\ nodesMetadata[TopologyNodes[n].nodeType].voting
        /\ ~nodesMetadata[TopologyNodes[n].nodeType].services
        /\ ~Truthy(TopologyNodes[n].customPreset.votingKeyDesiredLifetime)
        /\ ~Truthy(ResolvedPreset.votingKeyDesiredLifetime)

\* C9: a generateNemesis on a workspace where the generation seed, the nemesis
\* mosaics, a needed divisibility or a voting node's votingKeyDesiredLifetime
\* cannot be resolved fails, makes no call (config or compose) to the external
\* toolkit, and leaves the topology file as it was.
C9_UnresolvedAbortsBeforeToolkit ==
    [][(/\ result'.op = "generateNemesis"
        /\ SeedUnresolved \/ MosaicsUnresolved \/ DivisibilityUnresolved \/ LifetimeUnresolved)
          => /\ result'.status # "ok"
             /\ toolkitCalls' = <<>>
             /\ networkFile' = networkFile]_vars

\* A run failed on an unresolved value after it had generated the accounts of
\* the network and of a node.
C9_Witness ==
    /\ result.op = "generateNemesis"
    /\ result.status = UnresolvedConfigValue
    /\ ~SeedUnresolved
    /\ ~MosaicsUnresolved
    /\ DivisibilityUnresolved \/ LifetimeUnresolved
    /\ generated >= 8
    /\ toolkitCalls = <<>>

\* The descriptor handed to service.config by the last run.
Descriptor == toolkitCalls[1].customPresetObject[1]

\* The mosaics of the preset the last run has written.
WrittenMosaics == presetFile[1].nemesis[1].mosaics[1]

MainAddress(node) == storage.nodes[NodeKey(nodeName, node.number)]["Main"].address

Entry(address, amount) == [address |-> address, amount |-> amount]

Contains(entries, entry) == \E k \in 1..Len(entries) : entries[k] = entry

\* How many non-service nodes have a non-zero balance at position i.
FundedNodes(i) ==
    {n \in 1..Len(TopologyNodes) :
        /\ ~nodesMetadata[TopologyNodes[n].nodeType].services
        /\ BalanceAt(TopologyNodes[n].balances, i) # 0}

\* C11: in the descriptor of a run that reached the toolkit, for every mosaic
\* at index m with divisibility d: a non-service node with balance b for m has
\* the entry (its Main address, b * 10^d) exactly when b is not zero, and no
\* entry at all when b is zero or missing; a faucet balance f that is not zero
\* has the entry (faucet address, f * 10^d); every additional distribution of
\* amount a for m has the entry (its address, a * 10^d); and the mosaic has no
\* other entry.
C11_BalanceScaling ==
    (result.op = "generateNemesis" /\ toolkitCalls # <<>>)
        => \A i \in 1..Len(WrittenMosaics) :
              LET entries == Descriptor.nemesis.mosaics[i].currencyDistributions
                  input == networkFile[1]
                  faucetBalance == IF input.faucetBalances = None THEN 0
                                   ELSE BalanceAt(input.faucetBalances[1], i)
                  additional == IF input.additionalCurrencyDistributions = None
                                   \/ i > Len(input.additionalCurrencyDistributions[1])
                                THEN <<>>
                                ELSE input.additionalCurrencyDistributions[1][i]
              IN /\ \A n \in 1..Len(TopologyNodes) :
                       LET node == TopologyNodes[n]
                           b == BalanceAt(node.balances, i)
                       IN ~nodesMetadata[node.nodeType].services
                              => IF b # 0
                                 THEN Contains(entries,
                                          Entry(MainAddress(node),
                                                b * (10 ^ WrittenMosaics[i].divisibility[1])))
                                 ELSE \A k \in 1..Len(entries) :
                                          entries[k].address # MainAddress(node)
                 /\ faucetBalance # 0
                       => Contains(entries,
                              Entry(storage.network["faucet"].address,
                                    faucetBalance * (10 ^ WrittenMosaics[i].divisibility[1])))
                 /\ \A a \in 1..Len(additional) :
                       Contains(entries,
                           Entry(additional[a].address,
                                 additional[a].amount
                                     * (10 ^ WrittenMosaics[i].divisibility[1])))
                 /\ Len(entries) = Cardinality(FundedNodes(i))
                                      + (IF faucetBalance # 0 THEN 1 ELSE 0)
                                      + Len(additional)

\* A run reached the toolkit with a mosaic of divisibility 2, a node balance of
\* 1000 and a faucet balance of 7.
C11_Witness ==
    /\ result.op = "generateNemesis"
    /\ toolkitCalls # <<>>
    /\ WrittenMosaics[1].divisibility = Some(2)
    /\ "faucet" \in DOMAIN storage.network
    /\ Contains(Descriptor.nemesis.mosaics[1].currencyDistributions,
                Entry(storage.network["faucet"].address, 700))
    /\ \E n \in 1..Len(TopologyNodes) :
          /\ TopologyNodes[n].nodeType = "VotingDual"
          /\ Contains(Descriptor.nemesis.mosaics[1].currencyDistributions,
                      Entry(MainAddress(TopologyNodes[n]), 100000))

-----------------------------------------------------------------------------
(* Two independent runs of expandNodes followed by generateNemesis, each    *)
(* over its own copy of the same input file, preset file and key store.     *)

\* Account.generateNewAccount draws from the system's randomness: independent
\* runs draw different keys.  A run's generator is the count its fresh keys
\* start from; the tests stub the generator with a counter that starts at 0.
StubbedGenerator == 0
IndependentGenerator == 40
EarlierGenerator == 70
Generators == {StubbedGenerator, IndependentGenerator}

\* The inputs of new networks, with a faucet or without one.
DeterminismInputs ==
    {input \in GenesisInputs :
        /\ input.isNewNetwork
        /\ input.faucetBalances \in {None, Some(<<7>>)}
        /\ input.additionalCurrencyDistributions = None}

\* The runs work in a folder below the current directory, as the tests do.
DeterminismWorkingDir == "target/network1"

DeterminismPresets ==
    {CompletePreset,
     [CompletePreset EXCEPT
         !.nemesis = Some([mosaics |-> Some(<<Mosaic(Some(2)), Mosaic(None)>>)])]}

FreshWorkspace(dir, preset) ==
    [networkFile |-> None, presetFile |-> preset, folders |-> {Join(dir, "nodes")},
     workingDir |-> dir, toolkitCalls |-> <<>>]

\* The key-store.yml an earlier expansion and genesis over the same files left.
EarlierKeyStore(input, w) ==
    generateNemesis([storage |-> defaultValue, disk |-> None, generated |-> EarlierGenerator],
                    [w EXCEPT !.networkFile = expandNodes(input, None).networkFile],
                    FALSE, TRUE).ks.disk

\* What the key stores are seeded with: nothing, the founder's key, or every
\* secret an earlier run over the same files asked for.
KeyStoreSeeds == {"nothing", "founder", "every secret"}

SeedDocument(seed, input, w) ==
    IF seed = "nothing" THEN None
    ELSE IF seed = "founder" THEN Some(SeededDocument)
    ELSE EarlierKeyStore(input, w)

RunState(ks, w, seed, generator) ==
    [ks |-> ks, w |-> w, status |-> "ok", seed |-> seed, generator |-> generator]

ExpandNodesTwice ==
    LET second == secondRun[1]
        outcome == expandNodes(inputFile, networkFile)
        other == expandNodes(inputFile, second.w.networkFile)
    IN /\ result.op = "none"
       /\ networkFile' = outcome.networkFile
       /\ result' = OperationResult("expandNodes", outcome.status, outcome.value)
       /\ secondRun' = Some([second EXCEPT !.w.networkFile = other.networkFile,
                                           !.status = other.status])
       /\ UNCHANGED <<inputFile, keyStoreVars, genesisVars, lifecycleVars, resolverVars>>

OtherWorkspace(outcome, dir) ==
    [networkFile |-> outcome.networkFile, presetFile |-> outcome.presetFile,
     folders |-> outcome.folders, workingDir |-> dir, toolkitCalls |-> outcome.toolkitCalls]

GenerateNemesisTwice ==
    \E regenerate \in BOOLEAN, toolkitOk \in BOOLEAN :
        LET second == secondRun[1]
            outcome == generateNemesis(KeyStoreState, Workspace, regenerate, toolkitOk)
            other == generateNemesis(second.ks, [second.w EXCEPT !.toolkitCalls = <<>>],
                                     regenerate, toolkitOk)
        IN /\ result.op # "none"
           /\ storage' = outcome.ks.storage
           /\ disk' = outcome.ks.disk
           /\ generated' = outcome.ks.generated
           /\ networkFile' = outcome.networkFile
           /\ presetFile' = outcome.presetFile
           /\ folders' = outcome.folders
           /\ toolkitCalls' = outcome.toolkitCalls
           /\ result' = [OperationResult("generateNemesis", outcome.status, outcome.value)
                            EXCEPT !.args.regenerate = regenerate]
           /\ secondRun' = Some([second EXCEPT
                                    !.ks = other.ks,
                                    !.w = OtherWorkspace(other, second.w.workingDir),
                                    !.status = other.status])
           /\ UNCHANGED <<inputFile, workingDir, returned, lifecycleVars, resolverVars>>

InitDeterminism ==
    /\ inputFile \in {Some(input) : input \in DeterminismInputs}
    /\ networkFile = None
    /\ presetFile \in {Some(preset) : preset \in DeterminismPresets}
    /\ workingDir = DeterminismWorkingDir
    /\ folders = {Join(workingDir, "nodes")}
    /\ toolkitCalls = <<>>
    /\ \E seed \in KeyStoreSeeds, generator \in Generators :
          /\ disk = SeedDocument(seed, inputFile, FreshWorkspace(workingDir, presetFile))
          /\ secondRun =
                Some(RunState([storage |-> LoadStorage(disk), disk |-> disk,
                               generated |-> generator],
                              FreshWorkspace(workingDir, presetFile), seed, generator))
    /\ storage = LoadStorage(disk)
    /\ generated = StubbedGenerator
    /\ returned = EmptyMap
    /\ result = NoResult
    /\ keyStore = NoKeyStore
    /\ pending = NoPending
    /\ resolver = NoResolver

NextDeterminism ==
    \/ ExpandNodesTwice
    \/ GenerateNemesisTwice

\* The same operations on two copies of the same files.
SpecDeterminism == InitDeterminism /\ [][NextDeterminism]_vars

\* The ledger a run handed to the toolkit, if it got that far.
LedgerOf(calls) ==
    IF calls = <<>> THEN None ELSE Some(calls[1].customPresetObject[1].nemesis.transactions)

SameOutcome ==
    /\ result.status = secondRun[1].status
    /\ networkFile = secondRun[1].w.networkFile
    /\ storage = secondRun[1].ks.storage
    /\ disk = secondRun[1].ks.disk
    /\ LedgerOf(toolkitCalls) = LedgerOf(secondRun[1].w.toolkitCalls)

BothRan == secondRun # None /\ result.op = "generateNemesis"

-----------------------------------------------------------------------------
(* Persistence of the key store.                                            *)

MutatingOps == {"saveNetworkAccount", "getNetworkAccount", "getNodeAccount", "getVotingKeyFile"}

\* Every entry of map m is an entry of map n, with the same value.
Within(m, n) == \A k \in DOMAIN m : k \in DOMAIN n /\ n[k] = m[k]

\* Every entry the memory holds is in the document.
Persisted(st, document) ==
    /\ Within(st.network, document.network)
    /\ \A nodeKey \in DOMAIN st.nodes :
          nodeKey \in DOMAIN document.nodes /\ Within(st.nodes[nodeKey], document.nodes[nodeKey])
    /\ Within(st.votingFiles, document.votingFiles)

\* C13: after every completed key-store operation that saves or generates, the
\* key-store document on disk is the whole in-memory store, and in no state
\* between operations does the memory hold an entry the document lacks.
C13_WriteThrough ==
    /\ (result.op \in MutatingOps /\ result.status = "ok") => disk = Some(storage)
    /\ Persisted(storage, LoadStorage(disk))

\* A node account was generated into a store that had no file, and is on disk.
C13_Witness ==
    /\ result.op = "getNodeAccount"
    /\ result.status = "ok"
    /\ ~result.repeat
    /\ generated > 0
    /\ DOMAIN storage.nodes # {}
    /\ DOMAIN storage.network = {}
    /\ disk = Some(storage)

-----------------------------------------------------------------------------
(* The life of a KeyStore object: createStore, the LocalFileKeyStore        *)
(* constructor, LazyKeyStore, and another process writing the same file.    *)

MaxFactoryCalls == 2

\* A Password is a text, false or undefined.
PasswordUndefined == "undefined"
PasswordFalse == "false"
Passwords == {PasswordUndefined, PasswordFalse, "1234"}
PromptAnswers == {"", "1234"}

\* NetworkCommandUtils.resolvePassword, given what the operator would answer.
resolvePassword(providedPassword, noPassword, answer) ==
    IF providedPassword \in {PasswordUndefined, PasswordFalse, ""}
    THEN IF providedPassword = PasswordFalse THEN [password |-> PasswordFalse, prompts |-> 0]
         ELSE IF noPassword THEN [password |-> PasswordFalse, prompts |-> 0]
         ELSE IF answer = "" THEN [password |-> PasswordFalse, prompts |-> 1]
         ELSE [password |-> answer, prompts |-> 1]
    ELSE [password |-> providedPassword, prompts |-> 0]

\* new LocalFileKeyStore(password, mustExist, workingDir): existsSync, then
\* loadYaml when the file exists; readable tells whether loadYaml can read it
\* with the password.
LocalFileKeyStore(document, mustExist, readable) ==
    LET exist == document # None
    IN IF ~exist /\ mustExist
       THEN [status |-> StorageFileMissing, storage |-> None, fileAccesses |-> 1]
       ELSE IF exist /\ ~readable
       THEN [status |-> UnreadableStorageFile, storage |-> None, fileAccesses |-> 2]
       ELSE [status |-> "ok", storage |-> Some(LoadStorage(document)),
             fileAccesses |-> IF exist THEN 2 ELSE 1]

\* The object after a new LocalFileKeyStore(...) that ended as constructed did.
Constructed(store, constructed) ==
    [store EXCEPT
        !.fileAccesses = @ + constructed.fileAccesses,
        !.instances = IF constructed.status = "ok" THEN @ + 1 ELSE @,
        !.delegate = IF constructed.status = "ok" THEN Some(store.instances + 1) ELSE @]

\* createStore's factory: resolvePassword, then new LocalFileKeyStore(password, false, workingDir).
factory(store, document, answer, readable) ==
    LET resolved == resolvePassword(store.password, store.noPassword, answer)
        constructed == LocalFileKeyStore(document, FALSE, readable)
    IN [status |-> constructed.status,
        storage |-> constructed.storage,
        store |-> [Constructed(store, constructed) EXCEPT
                      !.factoryCalls = @ + 1,
                      !.factoryFailures = IF constructed.status = "ok" THEN @ ELSE @ + 1,
                      !.prompts = @ + resolved.prompts]]

getDelegate_AlwaysConstructs(store, current, document, answer, readable) ==
    factory(store, document, answer, readable)

\* LazyKeyStore.getDelegate: if (!this.delegate) this.delegate = await this.factory().
getDelegate(store, current, document, answer, readable) ==
    IF store.delegate # None
    THEN [status |-> "ok", storage |-> Some(current), store |-> store]
    ELSE factory(store, document, answer, readable)

\* NetworkCommandUtils.createStore(flags, logger, lazy, workingDir)
CreateStore ==
    \E lazy \in BOOLEAN, password \in Passwords, noPassword \in BOOLEAN,
       answer \in PromptAnswers, readable \in BOOLEAN :
        LET flagged == [NoKeyStore EXCEPT !.password = password, !.noPassword = noPassword]
            made == factory(flagged, disk, answer, readable)
        IN /\ keyStore.kind = "none"
           /\ keyStore' =
                 IF lazy THEN [flagged EXCEPT !.kind = "LazyKeyStore"]
                 ELSE IF made.status = "ok"
                 THEN [made.store EXCEPT !.kind = "LocalFileKeyStore"]
                 ELSE NoKeyStore
           /\ storage' = IF ~lazy /\ made.status = "ok" THEN made.storage[1] ELSE storage
           /\ result' = [OperationResult("createStore", IF lazy THEN "ok" ELSE made.status, None)
                            EXCEPT !.args.lazy = lazy]
           /\ UNCHANGED <<disk, generated, returned, topologyVars, genesisVars, comparisonVars, resolverVars, pending>>

\* new LocalFileKeyStore(undefined, mustExist, targetFolder), as the tests make it.
NewLocalFileKeyStore ==
    \E mustExist \in BOOLEAN, readable \in BOOLEAN :
        LET constructed == LocalFileKeyStore(disk, mustExist, readable)
        IN /\ keyStore.kind = "none"
           /\ keyStore' =
                 IF constructed.status = "ok"
                 THEN [Constructed(NoKeyStore, constructed) EXCEPT !.kind = "LocalFileKeyStore"]
                 ELSE NoKeyStore
           /\ storage' = IF constructed.status = "ok" THEN constructed.storage[1] ELSE storage
           /\ result' = [OperationResult("new LocalFileKeyStore", constructed.status, None)
                            EXCEPT !.args.mustExist = mustExist]
           /\ UNCHANGED <<disk, generated, returned, topologyVars, genesisVars, comparisonVars, resolverVars, pending>>

\* The store an operation runs on: the delegate's memory over the file as it is now.
DelegateState(delegated) ==
    [storage |-> delegated.storage[1], disk |-> disk, generated |-> generated]

\* An operation through the object the command holds: (await this.getDelegate()).op(...).
ViaKeyStore(op, args, delegated, outcome) ==
    /\ keyStore.kind # "none"
    /\ delegated.store.factoryCalls <= MaxFactoryCalls
    /\ IF delegated.status # "ok"
       THEN /\ keyStore' = delegated.store
            /\ result' = [OperationResult(op, delegated.status, None) EXCEPT !.args = args]
            /\ UNCHANGED <<storage, disk, generated>>
       ELSE /\ outcome.ks.generated <= MaxGenerated
            /\ keyStore' = [delegated.store EXCEPT !.servedBy = delegated.store.delegate[1]]
            /\ storage' = outcome.ks.storage
            /\ disk' = outcome.ks.disk
            /\ generated' = outcome.ks.generated
            /\ result' = [OperationResult(op, outcome.status, outcome.value) EXCEPT !.args = args]
    /\ UNCHANGED <<returned, topologyVars, genesisVars, comparisonVars, resolverVars, pending>>

Delegated(answer, readable) == getDelegate(keyStore, storage, disk, answer, readable)

\* The roles the command asks for and saves.
RolesCalled == {"founder", "faucet"}

ViaGetNetworkAccount ==
    \E answer \in PromptAnswers, readable \in BOOLEAN, generate \in BOOLEAN,
       accountName \in RolesCalled :
        ViaKeyStore("getNetworkAccount",
                    [NoArgs EXCEPT !.accountName = accountName, !.generate = generate],
                    Delegated(answer, readable),
                    getNetworkAccount(DelegateState(Delegated(answer, readable)),
                                      accountName, generate))

ViaSaveNetworkAccount ==
    \E answer \in PromptAnswers, readable \in BOOLEAN, privateKey \in UserPrivateKeys,
       accountName \in RolesCalled :
        ViaKeyStore("saveNetworkAccount",
                    [NoArgs EXCEPT !.accountName = accountName, !.privateKey = privateKey],
                    Delegated(answer, readable),
                    saveNetworkAccount(DelegateState(Delegated(answer, readable)),
                                       accountName, privateKey))

ViaGetNodeAccount ==
    \E answer \in PromptAnswers, readable \in BOOLEAN, generate \in BOOLEAN :
        ViaKeyStore("getNodeAccount",
                    [NoArgs EXCEPT !.keyName = "Main", !.nodeName = nodeName, !.number = 1,
                                   !.generate = generate],
                    Delegated(answer, readable),
                    getNodeAccount(DelegateState(Delegated(answer, readable)),
                                   "Main", nodeName, 1, generate))

ViaGetVotingKeyFile ==
    \E answer \in PromptAnswers, readable \in BOOLEAN :
        ViaKeyStore("getVotingKeyFile",
                    [NoArgs EXCEPT !.nodeName = nodeName, !.number = 1,
                                   !.startEpoch = 1, !.endEpoch = 1],
                    Delegated(answer, readable),
                    getVotingKeyFile(DelegateState(Delegated(answer, readable)),
                                     nodeName, 1, 1, 1))

\* The private key another process saves as the nemesis signer's.
OtherWriterPrivateKey == 102

\* Another process loads the file as it is, saves the nemesisSigner account into it
\* and ends, after this object has loaded its copy.
OtherWriterSaves ==
    LET theirs == [storage |-> LoadStorage(disk), disk |-> disk, generated |-> 0]
        saved == saveNetworkAccount(theirs, "nemesisSigner", OtherWriterPrivateKey)
    IN /\ keyStore.delegate # None
       /\ result.op # "other writer"
       /\ disk' = saved.ks.disk
       /\ result' = OperationResult("other writer", "ok", None)
       /\ UNCHANGED <<storage, generated, returned, keyStore, topologyVars, genesisVars,
                      comparisonVars, resolverVars, pending>>

\* key-store.yml with the network map only.
PartialDocument == [network |-> SeededDocument.network]

LifecycleDocuments == {None, Some(SeededDocument), Some(PartialDocument)}

InitLifecycle ==
    /\ disk \in LifecycleDocuments
    /\ storage = defaultValue
    /\ keyStore = NoKeyStore
    /\ pending = NoPending
    /\ resolver = NoResolver
    /\ generated = 0
    /\ returned = EmptyMap
    /\ result = NoResult
    /\ inputFile = None
    /\ networkFile = None
    /\ presetFile = None
    /\ folders = {}
    /\ toolkitCalls = <<>>
    /\ workingDir = CurrentDirectory
    /\ secondRun = None

Construction ==
    \/ CreateStore
    \/ NewLocalFileKeyStore

Operations ==
    \/ ViaGetNetworkAccount
    \/ ViaSaveNetworkAccount
    \/ ViaGetNodeAccount
    \/ ViaGetVotingKeyFile

NextLifecycle ==
    \/ Construction
    \/ Operations

\* A command makes its key store and works through it.
SpecLifecycle == InitLifecycle /\ [][NextLifecycle]_vars

NextShared ==
    \/ Construction
    \/ Operations
    \/ OtherWriterSaves

\* The same, while another process writes the same file.
SpecSharedFile == InitLifecycle /\ [][NextShared]_vars

-----------------------------------------------------------------------------
(* Properties of the KeyStore object.                                       *)

IsLazy(store) == store.kind = "LazyKeyStore"

\* C14: making a LazyKeyStore calls no factory, asks no password and touches no
\* file; an operation on a LazyKeyStore without a delegate calls the factory;
\* once the factory has made the delegate it is never called again and every
\* operation runs on that delegate, so a factory that succeeds when first
\* called is called exactly once.
C14_LazyKeyStore ==
    [][/\ (keyStore.kind = "none" /\ IsLazy(keyStore')) =>
              /\ keyStore'.factoryCalls = 0
              /\ keyStore'.prompts = 0
              /\ keyStore'.fileAccesses = 0
              /\ keyStore'.delegate = None
              /\ UNCHANGED <<storage, disk>>
       /\ (IsLazy(keyStore) /\ keyStore.delegate = None) =>
              keyStore'.factoryCalls = keyStore.factoryCalls + 1
       /\ (IsLazy(keyStore) /\ keyStore.delegate # None) =>
              /\ keyStore'.factoryCalls = keyStore.factoryCalls
              /\ keyStore'.prompts = keyStore.prompts
              /\ keyStore'.instances = keyStore.instances
              /\ keyStore'.delegate = keyStore.delegate
              /\ keyStore'.servedBy = keyStore.delegate[1]
       /\ (IsLazy(keyStore') /\ keyStore'.delegate # None /\ keyStore'.factoryFailures = 0) =>
              keyStore'.factoryCalls = 1 /\ keyStore'.instances = 1]_vars

\* A LazyKeyStore served two generating operations from the delegate its one
\* factory call made after asking for the password.
C14_Witness ==
    /\ IsLazy(keyStore)
    /\ keyStore.factoryCalls = 1
    /\ keyStore.prompts = 1
    /\ keyStore.delegate = Some(1)
    /\ keyStore.servedBy = 1
    /\ generated = 2
    /\ DOMAIN storage.nodes # {}
    /\ result.op = "getVotingKeyFile"
    /\ result.status = "ok"

\* A LocalFileKeyStore is constructed in this step.
Constructs == keyStore.kind = "none" /\ keyStore'.kind = "LocalFileKeyStore"

\* C17: new LocalFileKeyStore with mustExist over an absent file throws and
\* makes no store; without mustExist it makes a store of three empty maps and
\* writes no file, which first appears with a mutating operation; over an
\* existing file the store holds every map of the file, not the default.
C17_ConstructionPolicy ==
    [][/\ (result'.op = "new LocalFileKeyStore" /\ keyStore.kind = "none" /\ disk = None) =>
              IF result'.args.mustExist
              THEN result'.status = StorageFileMissing /\ keyStore'.kind = "none"
              ELSE result'.status = "ok" /\ Constructs
       /\ (Constructs /\ disk = None) => storage' = defaultValue /\ disk' = None
       /\ (disk = None /\ disk' # None) =>
              result'.op \in MutatingOps /\ result'.status = "ok" /\ disk' = Some(storage')
       /\ (Constructs /\ disk # None) =>
              /\ disk' = disk
              /\ \A field \in DOMAIN disk[1] : storage'[field] = disk[1][field]
              /\ \A field \in DOMAIN defaultValue \ DOMAIN disk[1] :
                    storage'[field] = defaultValue[field]]_vars

\* A store made without mustExist over an absent file: empty, and no file yet.
C17_Witness ==
    /\ result.op = "new LocalFileKeyStore"
    /\ ~result.args.mustExist
    /\ result.status = "ok"
    /\ keyStore.kind = "LocalFileKeyStore"
    /\ storage = defaultValue
    /\ disk = None

\* The file holds the account the other process saved.
OtherWritersAccountOnDisk ==
    /\ "nemesisSigner" \in DOMAIN LoadStorage(disk).network
    /\ LoadStorage(disk).network["nemesisSigner"].privateKey = OtherWriterPrivateKey

\* C19: once another process has written an account into the key-store file
\* that this object loaded earlier, no operation of this object writes its
\* older copy over the file: the other process's account stays in the file.
C19_StaleCopyProtection ==
    [][OtherWritersAccountOnDisk => OtherWritersAccountOnDisk']_vars

-----------------------------------------------------------------------------
(* What generateNemesis makes for each node of the topology.                *)

IsServices(node) == nodesMetadata[node.nodeType].services

\* The keys of the ledger that end with the node's number, as getTransactionKey
\* writes it.
LedgerOfNode(ledger, number) ==
    {key \in DOMAIN ledger : SubSeq(key, Len(key) - 4, Len(key)) = zeroPad(number, 5)}

\* The addresses generateNemesis funds with mosaic i: the Main addresses of the
\* nodes that are not service-only, the faucet and the additional distributions.
FundedAddresses(i) ==
    {MainAddress(TopologyNodes[m]) :
        m \in {n \in 1..Len(TopologyNodes) : ~IsServices(TopologyNodes[n])}}
    \cup (IF "faucet" \in DOMAIN storage.network
          THEN {storage.network["faucet"].address} ELSE {})
    \cup (IF networkFile[1].additionalCurrencyDistributions = None
             \/ i > Len(networkFile[1].additionalCurrencyDistributions[1])
          THEN {}
          ELSE {networkFile[1].additionalCurrencyDistributions[1][i][a].address :
                   a \in 1..Len(networkFile[1].additionalCurrencyDistributions[1][i])})

\* Nothing in the key store, the preset file or the descriptor is about node.
Untouched(node) ==
    /\ NodeKey(nodeName, node.number) \notin DOMAIN storage.nodes
    /\ \A endEpoch \in 1..MaxEpoch :
          VotingKey(nodeName, node.number, 1, endEpoch) \notin DOMAIN storage.votingFiles
    /\ (presetFile # None /\ presetFile[1].knownPeers # None) =>
          /\ ~\E k \in 1..Len(presetFile[1].knownPeers[1]) :
                presetFile[1].knownPeers[1][k].name = node.friendlyName
          /\ ~\E k \in 1..Len(presetFile[1].knownRestGateways[1]) :
                presetFile[1].knownRestGateways[1][k]
                    = resolveRestUrl(node.hostname, node.restProtocol)
    /\ toolkitCalls # <<>> =>
          /\ LedgerOfNode(Descriptor.nemesis.transactions, node.number) = {}
          /\ \A i \in 1..Len(WrittenMosaics) :
                \A k \in 1..Len(Descriptor.nemesis.mosaics[i].currencyDistributions) :
                    Descriptor.nemesis.mosaics[i].currencyDistributions[k].address
                        \in FundedAddresses(i)

\* The node has its three accounts, its peer descriptor and its two links.
Processed(node) ==
    /\ NodeKey(nodeName, node.number) \in DOMAIN storage.nodes
    /\ DOMAIN storage.nodes[NodeKey(nodeName, node.number)] = {"Main", "VRF", "Remote"}
    /\ \E k \in 1..Len(presetFile[1].knownPeers[1]) :
          /\ presetFile[1].knownPeers[1][k].name = node.friendlyName
          /\ presetFile[1].knownPeers[1][k].publicKey
                = storage.nodes[NodeKey(nodeName, node.number)]["Main"].publicKey
    /\ Cardinality(LedgerOfNode(Descriptor.nemesis.transactions, node.number)) >= 2

\* C15: after generateNemesis a service-only node of the topology has no node
\* account and no voting key file in the key store, no peer descriptor and no
\* REST gateway in the preset, no balance entry and no link transaction in the
\* descriptor; in a run that reached the toolkit every other node has its
\* accounts, its peer descriptor and its links.
C15_ServiceOnlyExclusion ==
    result.op = "generateNemesis"
        => \A n \in 1..Len(TopologyNodes) :
              IF IsServices(TopologyNodes[n]) THEN Untouched(TopologyNodes[n])
              ELSE toolkitCalls # <<>> => Processed(TopologyNodes[n])

\* A run over a service-only node with a balance and another node reached the toolkit.
C15_Witness ==
    /\ result.op = "generateNemesis"
    /\ toolkitCalls # <<>>
    /\ \E n \in 1..Len(TopologyNodes) :
          /\ IsServices(TopologyNodes[n])
          /\ BalanceAt(TopologyNodes[n].balances, 1) # 0
          /\ Untouched(TopologyNodes[n])
    /\ \E n \in 1..Len(TopologyNodes) :
          ~IsServices(TopologyNodes[n]) /\ Processed(TopologyNodes[n])

\* The ledger of the descriptor handed to the toolkit.
Ledger == Descriptor.nemesis.transactions

NonServiceNodes == {n \in 1..Len(TopologyNodes) : ~IsServices(TopologyNodes[n])}
VotingNodes == {n \in NonServiceNodes : nodesMetadata[TopologyNodes[n].nodeType].voting}

VrfKey(number) == <<"1", "_", "V", "R", "F", "_">> \o zeroPad(number, 5)
RemoteKey(number) == <<"2", "_", "R", "e", "m", "o", "t", "e", "_">> \o zeroPad(number, 5)
VotingLinkKey(number) == <<"3", "_", "V", "o", "t", "i", "n", "g", "_">> \o zeroPad(number, 5)

\* The entry under key is a link of that type, signed by the node's Main
\* account, to the linked public key.
IsLink(key, type, node, linkedPublicKey) ==
    /\ key \in DOMAIN Ledger
    /\ Ledger[key].type = type
    /\ Ledger[key].signer = storage.nodes[NodeKey(nodeName, node.number)]["Main"].publicKey
    /\ Ledger[key].linkedPublicKey = linkedPublicKey

\* C20: the ledger of a run that reached the toolkit holds, for every node that
\* is not service-only, one VRF link under ordinal 1 and one Remote link under
\* ordinal 2, signed by the node's Main account; one Voting link under ordinal
\* 3 over epochs 1 to votingKeyDesiredLifetime exactly for the voting nodes;
\* and nothing else: 2 * (non-service nodes) + (voting nodes) entries.
C20_LinkTransactions ==
    (result.op = "generateNemesis" /\ toolkitCalls # <<>>)
        => /\ \A n \in NonServiceNodes :
                 LET node == TopologyNodes[n]
                     accounts == storage.nodes[NodeKey(nodeName, node.number)]
                     lifetime == presetFile[1].votingKeyDesiredLifetime[1]
                 IN /\ IsLink(VrfKey(node.number), "VRF", node, accounts["VRF"].publicKey)
                    /\ IsLink(RemoteKey(node.number), "Remote", node,
                              accounts["Remote"].publicKey)
                    /\ (VotingLinkKey(node.number) \in DOMAIN Ledger) <=> (n \in VotingNodes)
                    /\ n \in VotingNodes =>
                          /\ IsLink(VotingLinkKey(node.number), "Voting", node,
                                    storage.votingFiles[VotingKey(nodeName, node.number, 1,
                                                                  lifetime)].publicKey)
                          /\ Ledger[VotingLinkKey(node.number)].startEpoch = 1
                          /\ Ledger[VotingLinkKey(node.number)].endEpoch = lifetime
           /\ Cardinality(DOMAIN Ledger)
                 = 2 * Cardinality(NonServiceNodes) + Cardinality(VotingNodes)

\* The ledger of a topology of two nodes that are not service-only, one of them voting.
C20_Witness ==
    /\ result.op = "generateNemesis"
    /\ toolkitCalls # <<>>
    /\ Cardinality(NonServiceNodes) = 2
    /\ Cardinality(VotingNodes) = 1
    /\ Cardinality(DOMAIN Ledger) = 5

\* Map m is map n with the entry of key left out of the comparison.
SameExcept(m, n, key) ==
    /\ (DOMAIN m) \ {key} = (DOMAIN n) \ {key}
    /\ \A k \in (DOMAIN m) \ {key} : m[k] = n[k]

\* C16: saveNetworkAccount(role, privateKey) stores the account of privateKey
\* under role whatever was stored before, writes it to the file, and leaves the
\* other roles, the node accounts and the voting files as they were; the
\* getNetworkAccount(role) that follows returns the account of privateKey.
C16_ExplicitOverwrite ==
    [][/\ (result'.op = "saveNetworkAccount" /\ result'.status = "ok") =>
              /\ storage'.network[result'.args.accountName]
                    = toStored(createFromPrivateKey(result'.args.privateKey))
              /\ disk' = Some(storage')
              /\ keyStore.delegate # None =>
                    /\ SameExcept(storage'.network, storage.network, result'.args.accountName)
                    /\ storage'.nodes = storage.nodes
                    /\ storage'.votingFiles = storage.votingFiles
       /\ (/\ result.op = "saveNetworkAccount"
           /\ result.status = "ok"
           /\ result'.op = "getNetworkAccount"
           /\ result'.args.accountName = result.args.accountName) =>
              /\ result'.status = "ok"
              /\ toStored(result'.value[1])
                    = toStored(createFromPrivateKey(result.args.privateKey))
              /\ storage' = storage]_vars

\* The founder key that was generated before has been replaced by the saved
\* one, beside the faucet account and a node account.
C16_Witness ==
    /\ result.op = "saveNetworkAccount"
    /\ result.args.accountName = "founder"
    /\ generated = 2
    /\ DOMAIN storage.network = {"founder", "faucet"}
    /\ storage.network["founder"].privateKey = 101
    /\ storage.network["faucet"].privateKey # 101
    /\ DOMAIN storage.nodes # {}
    /\ disk = Some(storage)

-----------------------------------------------------------------------------
(* The network input file: NetworkUtils.saveNetworkInput and its validation.*)

\* The fields of a custom network preset that validateNetworkInput reads, and
\* a private key the operator may have typed in.
InputPreset(epochAdjustment, seed, description, nemesis, privateKey) ==
    [epochAdjustment |-> epochAdjustment,
     nemesisGenerationHashSeed |-> seed,
     networkDescription |-> description,
     nemesis |-> nemesis,
     nemesisSignerPrivateKey |-> privateKey]

\* A Partial<NetworkInputFile>: any field may be undefined.
PartialNetworkInput(networkType, isNewNetwork, customNetworkPreset) ==
    [networkType |-> networkType,
     isNewNetwork |-> isNewNetwork,
     customNetworkPreset |-> customNetworkPreset]

validateNetworkInput_NetworkTypeOnly(network) ==
    IF ~Truthy(network.networkType)
    THEN [status |-> ValidationError, value |-> Some("networkType")]
    ELSE [status |-> "ok", value |-> None]

\* The checks of the custom preset of a new network, in the code's order.
validateCustomNetworkPreset(preset) ==
    IF ~TruthyText(preset.epochAdjustment)
    THEN [status |-> ValidationError, value |-> Some("customNetworkPreset.epochAdjustment")]
    ELSE IF ~TruthyText(preset.nemesisGenerationHashSeed)
    THEN [status |-> ValidationError,
          value |-> Some("customNetworkPreset.nemesisGenerationHashSeed")]
    ELSE IF ~TruthyText(preset.networkDescription)
    THEN [status |-> ValidationError, value |-> Some("customNetworkPreset.networkDescription")]
    ELSE IF preset.nemesis = None
    THEN [status |-> ValidationError, value |-> Some("customNetworkPreset.nemesis")]
    ELSE IF preset.nemesis[1].mosaics = None
    THEN [status |-> ValidationError, value |-> Some("customNetworkPreset.nemesis.mosaics")]
    ELSE [status |-> "ok", value |-> None]

\* NetworkUtils.validateNetworkInput: the field whose check throws, if one does.
validateNetworkInput(network) ==
    IF ~Truthy(network.networkType)
    THEN [status |-> ValidationError, value |-> Some("networkType")]
    ELSE IF network.isNewNetwork # Some(TRUE) THEN [status |-> "ok", value |-> None]
    ELSE IF network.customNetworkPreset = None
    THEN [status |-> ValidationError, value |-> Some("customNetworkPreset")]
    ELSE validateCustomNetworkPreset(network.customNetworkPreset[1])

\* CryptoUtils.removePrivateKeys on an input file.
removeInputPrivateKeys(network) ==
    IF network.customNetworkPreset = None THEN network
    ELSE [network EXCEPT
             !.customNetworkPreset = Some([@[1] EXCEPT !.nemesisSignerPrivateKey = None])]

\* NetworkUtils.saveNetworkInput: the outcome and network-input.yml afterwards.
saveNetworkInput(inputDocument, network) ==
    LET validated == validateNetworkInput(network)
    IN IF validated.status # "ok"
       THEN [status |-> validated.status, value |-> validated.value,
             inputFile |-> inputDocument]
       ELSE [status |-> "ok", value |-> None,
             inputFile |-> Some(removeInputPrivateKeys(network))]

\* What the callers may hand over: each field undefined, empty or set.
NetworkTypes == {None, Some(0), Some(152)}
Texts(text) == {None, Some(""), Some(text)}
Nemeses == {None, Some([mosaics |-> None]), Some([mosaics |-> Some(<<>>)])}

InputPresets ==
    {None} \cup
    {Some(InputPreset(epochAdjustment, seed, description, nemesis, privateKey)) :
        epochAdjustment \in Texts("1s"), seed \in {None, Some("seed")},
        description \in {None, Some("net")}, nemesis \in Nemeses,
        privateKey \in {None, Some(101)}}

\* The inputs of new networks, and inputs of nodes for an existing network
\* without a custom preset or with an empty one.
PartialNetworkInputs ==
    {PartialNetworkInput(networkType, Some(TRUE), customNetworkPreset) :
        networkType \in NetworkTypes, customNetworkPreset \in InputPresets}
    \cup {PartialNetworkInput(networkType, isNewNetwork, customNetworkPreset) :
             networkType \in NetworkTypes, isNewNetwork \in {None, Some(FALSE)},
             customNetworkPreset \in {None, Some(InputPreset(None, None, None, None, None))}}

SaveNetworkInput ==
    \E network \in PartialNetworkInputs :
        LET outcome == saveNetworkInput(inputFile, network)
        IN /\ inputFile' = outcome.inputFile
           /\ result' = [OperationResult("saveNetworkInput", outcome.status, outcome.value)
                            EXCEPT !.args.network = Some(network)]
           /\ UNCHANGED <<networkFile, keyStoreVars, genesisVars, comparisonVars, lifecycleVars, resolverVars>>

InitInput ==
    /\ inputFile = None
    /\ networkFile = None
    /\ result = NoResult
    /\ disk = None
    /\ storage = LoadStorage(disk)
    /\ generated = 0
    /\ returned = EmptyMap
    /\ presetFile = None
    /\ folders = {}
    /\ toolkitCalls = <<>>
    /\ workingDir = CurrentDirectory
    /\ secondRun = None
    /\ keyStore = NoKeyStore
    /\ pending = NoPending
    /\ resolver = NoResolver

NextInput == SaveNetworkInput

\* saveNetworkInput, any number of times, over the inputs.
SpecInput == InitInput /\ [][NextInput]_vars

\* The field is undefined or empty.
Missing(optional) == optional = None \/ optional[1] = ""

\* C18: saveNetworkInput throws and leaves the input file as it was when the
\* networkType is missing, or when the network is new and customNetworkPreset,
\* its epochAdjustment, nemesisGenerationHashSeed, networkDescription, nemesis
\* or nemesis.mosaics is missing; otherwise it writes the input, without
\* private keys, as the input file.
C18_InputValidation ==
    [][result'.op = "saveNetworkInput" =>
          LET network == result'.args.network[1]
              preset == network.customNetworkPreset
              incomplete ==
                  \/ network.networkType \in {None, Some(0)}
                  \/ /\ network.isNewNetwork = Some(TRUE)
                     /\ \/ preset = None
                        \/ Missing(preset[1].epochAdjustment)
                        \/ Missing(preset[1].nemesisGenerationHashSeed)
                        \/ Missing(preset[1].networkDescription)
                        \/ preset[1].nemesis = None
                        \/ preset[1].nemesis[1].mosaics = None
          IN IF incomplete
             THEN result'.status = ValidationError /\ inputFile' = inputFile
             ELSE /\ result'.status = "ok"
                  /\ inputFile'[1].networkType = network.networkType
                  /\ inputFile'[1].isNewNetwork = network.isNewNetwork
                  /\ preset # None =>
                        /\ inputFile'[1].customNetworkPreset[1].nemesisSignerPrivateKey = None
                        /\ \A field \in (DOMAIN preset[1]) \ {"nemesisSignerPrivateKey"} :
                              inputFile'[1].customNetworkPreset[1][field] = preset[1][field]]_vars

\* A new network's input without its network description was refused after a
\* complete one had been written, and the written one is still the file.
C18_Witness ==
    /\ result.op = "saveNetworkInput"
    /\ result.status = ValidationError
    /\ result.value = Some("customNetworkPreset.networkDescription")
    /\ result.args.network[1].isNewNetwork = Some(TRUE)
    /\ inputFile # None
    /\ inputFile[1].isNewNetwork = Some(TRUE)
    /\ inputFile[1].customNetworkPreset[1].networkDescription = Some("net")

-----------------------------------------------------------------------------
(* The keys of the ledger, compared as texts.                               *)

\* The variables a specification leaves alone start as after construction.
NoFiles ==
    /\ inputFile = None
    /\ networkFile = None
    /\ presetFile = None
    /\ folders = {}
    /\ toolkitCalls = <<>>
    /\ workingDir = CurrentDirectory
    /\ secondRun = None

NoStore ==
    /\ disk = None
    /\ storage = LoadStorage(disk)
    /\ generated = 0
    /\ returned = EmptyMap
    /\ keyStore = NoKeyStore
    /\ pending = NoPending
    /\ resolver = NoResolver

\* The UTF-16 code units of the characters of a key.
CodeUnit ==
    [c \in {"0", "1", "2", "3", "4", "5", "6", "7", "8", "9"} |->
        CHOOSE n \in 48..57 : Digits[n - 47] = c]
    @@ ("V" :> 86) @@ ("R" :> 82) @@ ("F" :> 70) @@ ("_" :> 95) @@ ("e" :> 101)
    @@ ("m" :> 109) @@ ("o" :> 111) @@ ("t" :> 116) @@ ("i" :> 105) @@ ("n" :> 110)
    @@ ("g" :> 103)

\* a < b for two texts, as JavaScript compares strings.
RECURSIVE TextLess(_, _)
TextLess(a, b) ==
    IF b = <<>> THEN FALSE
    ELSE IF a = <<>> THEN TRUE
    ELSE IF Head(a) = Head(b) THEN TextLess(Tail(a), Tail(b))
    ELSE CodeUnit[Head(a)] < CodeUnit[Head(b)]

\* The three kinds of link transaction generateNemesis writes.
LinkKinds == {<<1, <<"V", "R", "F">>>>, <<2, <<"R", "e", "m", "o", "t", "e">>>>,
              <<3, <<"V", "o", "t", "i", "n", "g">>>>}

\* Node numbers around the changes of the number of digits.
LedgerNodeNumbers == {1, 2, 9, 10, 99, 100, 99999, 100000}

LedgerTransactions ==
    {TransactionInformation(number, kind[2], kind[1], "payload") :
        number \in LedgerNodeNumbers, kind \in LinkKinds}

\* The keys of two transactions of the ledger.
CompareTransactionKeys ==
    \E a \in LedgerTransactions, b \in LedgerTransactions :
        /\ result' = OperationResult("getTransactionKey", "ok",
                         Some([a |-> a, b |-> b, keyA |-> getTransactionKey(a),
                               keyB |-> getTransactionKey(b)]))
        /\ UNCHANGED <<topologyVars, keyStoreVars, genesisVars, comparisonVars, lifecycleVars, resolverVars>>

InitLedgerKeys == NoFiles /\ NoStore /\ result = NoResult

NextLedgerKeys == CompareTransactionKeys

\* getTransactionKey over pairs of transactions.
SpecLedgerKeys == InitLedgerKeys /\ [][NextLedgerKeys]_vars

Compared == result.value[1]

\* (kindOrdinal, nodeNumber) of a is smaller than that of b.
OrderedBefore(a, b) ==
    a.typeNumber < b.typeNumber \/ (a.typeNumber = b.typeNumber /\ a.nodeNumber < b.nodeNumber)

SameKindAndNode(a, b) == a.typeNumber = b.typeNumber /\ a.nodeNumber = b.nodeNumber

\* C21 as stated: the key of a is the smaller text exactly when (kindOrdinal,
\* nodeNumber) of a is the smaller pair, for every node number.
C21_KeyOrdering ==
    result.op = "getTransactionKey"
        => (TextLess(Compared.keyA, Compared.keyB) <=> OrderedBefore(Compared.a, Compared.b))

\* C21: two transactions of different (kind, node) never have the same key, for
\* every node number; and while both node numbers have at most five digits the
\* key of a is the smaller text exactly when (kindOrdinal, nodeNumber) of a is
\* the smaller pair.
C21_KeyOrderingUpToFiveDigits ==
    result.op = "getTransactionKey"
        => /\ (Compared.keyA = Compared.keyB) <=> SameKindAndNode(Compared.a, Compared.b)
           /\ (Compared.a.nodeNumber < 100000 /\ Compared.b.nodeNumber < 100000)
                 => (TextLess(Compared.keyA, Compared.keyB)
                        <=> OrderedBefore(Compared.a, Compared.b))

\* The keys of nodes 9 and 10 of one kind, the key of node 9 being the smaller.
C21_Witness ==
    /\ result.op = "getTransactionKey"
    /\ Compared.a.nodeNumber = 9
    /\ Compared.b.nodeNumber = 10
    /\ Compared.a.typeNumber = Compared.b.typeNumber
    /\ Compared.keyA = <<"2", "_", "R", "e", "m", "o", "t", "e", "_", "0", "0", "0", "0", "9">>
    /\ TextLess(Compared.keyA, Compared.keyB)

-----------------------------------------------------------------------------
(* The order in which generateNemesis asks the key store for secrets.       *)

NetworkSecret(accountName) == <<"network", 0, accountName>>

\* The secrets of one node, in the order of the loop body.
SecretsOfNode(node) ==
    IF IsServices(node) THEN <<>>
    ELSE <<<<"nodes", node.number, "Main">>, <<"nodes", node.number, "VRF">>,
           <<"nodes", node.number, "Remote">>>>
         \o (IF nodesMetadata[node.nodeType].voting
             THEN <<<<"votingFiles", node.number, "">>>> ELSE <<>>)

RECURSIVE SecretsOfNodes(_, _)
SecretsOfNodes(nodes, n) ==
    IF n = 0 THEN <<>> ELSE SecretsOfNodes(nodes, n - 1) \o SecretsOfNode(nodes[n])

\* The secrets a run over the topology asks a store without secrets to generate.
ExpectedSecrets ==
    <<NetworkSecret("nemesisSigner"), NetworkSecret("harvestNetworkFeeSink"),
      NetworkSecret("namespaceRentalFeeSink"), NetworkSecret("mosaicRentalFeeSink"),
      NetworkSecret("founder")>>
    \o SecretsOfNodes(TopologyNodes, Len(TopologyNodes))
    \o (IF networkFile[1].faucetBalances # None THEN <<NetworkSecret("faucet")>> ELSE <<>>)

\* The public key the store holds for the secret, if it holds one.
StoredPublicKey(secret) ==
    IF secret[1] = "network"
    THEN IF secret[3] \in DOMAIN storage.network
         THEN Some(storage.network[secret[3]].publicKey) ELSE None
    ELSE IF secret[1] = "nodes"
    THEN IF NodeKey(nodeName, secret[2]) \in DOMAIN storage.nodes
            /\ secret[3] \in DOMAIN storage.nodes[NodeKey(nodeName, secret[2])]
         THEN Some(storage.nodes[NodeKey(nodeName, secret[2])][secret[3]].publicKey)
         ELSE None
    ELSE LET held == {key \in DOMAIN storage.votingFiles :
                         \E endEpoch \in 1..MaxEpoch :
                             key = VotingKey(nodeName, secret[2], 1, endEpoch)}
         IN IF held = {} THEN None
            ELSE Some(storage.votingFiles[CHOOSE key \in held : TRUE].publicKey)

\* The key store had no secret when the runs began.
StartedEmpty ==
    ~("founder" \in DOMAIN storage.network
        /\ storage.network["founder"].privateKey \in UserPrivateKeys)

\* C22: over a key store that began without secrets, the n secrets generated
\* so far are the first n of: nemesisSigner, harvestNetworkFeeSink,
\* namespaceRentalFeeSink, mosaicRentalFeeSink, founder, then for each node that
\* is not service-only, in topology order, Main, VRF, Remote and (voting nodes)
\* the voting key file, then faucet if declared; they were generated in that
\* order and no later secret exists yet.
C22_SecretResolutionOrder ==
    (result.op = "generateNemesis" /\ StartedEmpty)
        => /\ generated <= Len(ExpectedSecrets)
           /\ \A k \in 1..Len(ExpectedSecrets) :
                 StoredPublicKey(ExpectedSecrets[k])
                     = IF k <= generated THEN Some(PublicKeyOf(FreshPrivateKey(k))) ELSE None

\* A run over a voting node and a second node with a faucet generated its
\* thirteen secrets.
C22_Witness ==
    /\ result.op = "generateNemesis"
    /\ StartedEmpty
    /\ toolkitCalls # <<>>
    /\ Len(ExpectedSecrets) = 13
    /\ generated = 13
    /\ StoredPublicKey(NetworkSecret("faucet")) = Some(PublicKeyOf(FreshPrivateKey(13)))

-----------------------------------------------------------------------------
(* Friendly names over templates and long groups.                           *)

\* The number of nodes of a group: up to MaxTotal, and one group long enough
\* for a counter of two digits.
NameTotals == (0..MaxTotal) \cup {MaxTotal + 9}

NameGroups == {NodeTypeInput(n, "Peer", t, <<0>>, "undefined") : n \in NickNames, t \in NameTotals}

\* The templates of FriendlyNamePatterns and one that names the nickname twice.
NamePatterns ==
    FriendlyNamePatterns
        \cup {NicknameKey \o <<"-">> \o NicknameKey \o FriendlyNumberKey}

NameInputs ==
    {NetworkInput(nodeTypes, pattern) :
        nodeTypes \in SeqsUpTo(NameGroups, MaxGroups), pattern \in NamePatterns}

InitFriendlyNames ==
    /\ inputFile \in {Some(input) : input \in NameInputs}
    /\ networkFile = None
    /\ result = NoResult
    /\ presetFile = None
    /\ folders = {}
    /\ toolkitCalls = <<>>
    /\ workingDir = CurrentDirectory
    /\ secondRun = None
    /\ NoStore

NextFriendlyNames == ExpandNodes

\* expandNodes over templates and groups of up to MaxTotal + 9 nodes.
SpecFriendlyNames == InitFriendlyNames /\ [][NextFriendlyNames]_vars

\* The template with every placeholder replaced by its value, read left to right.
RECURSIVE Substituted(_, _, _, _)
Substituted(template, suffix, nickname, friendlyNumber) ==
    LET StartsWith(key) == Len(template) >= Len(key) /\ SubSeq(template, 1, Len(key)) = key
        Rest(key) == SubSeq(template, Len(key) + 1, Len(template))
    IN IF template = <<>> THEN <<>>
       ELSE IF StartsWith(SuffixKey)
       THEN suffix \o Substituted(Rest(SuffixKey), suffix, nickname, friendlyNumber)
       ELSE IF StartsWith(NicknameKey)
       THEN nickname \o Substituted(Rest(NicknameKey), suffix, nickname, friendlyNumber)
       ELSE IF StartsWith(FriendlyNumberKey)
       THEN friendlyNumber \o Substituted(Rest(FriendlyNumberKey), suffix, nickname, friendlyNumber)
       ELSE <<Head(template)>> \o Substituted(Tail(template), suffix, nickname, friendlyNumber)

Occurrences(text, key) ==
    Cardinality({i \in 1..Len(text) : i + Len(key) - 1 <= Len(text)
                                      /\ SubSeq(text, i, i + Len(key) - 1) = key})

\* No placeholder occurs twice in the template.
PlaceholdersOnce(template) ==
    \A key \in {SuffixKey, NicknameKey, FriendlyNumberKey} : Occurrences(template, key) <= 1

\* The i-th node is the k-th node of the list that carries its nickname.
RankByNickname(nodes, i) == Cardinality({j \in 1..i : nodes[j].nickName = nodes[i].nickName})

\* Region index 0 followed by k in at least two digits.
ExpectedFriendlyNumber(k) == <<"0">> \o (IF k < 10 THEN <<"0">> \o ToStr(k) ELSE ToStr(k))

NamedAsSubstituted(input, nodes) ==
    \A i \in 1..Len(nodes) :
        /\ nodes[i].friendlyName =
               Substituted(friendlyNamePatternOf(input), input.suffix, nodes[i].nickName,
                           ExpectedFriendlyNumber(RankByNickname(nodes, i)))
        /\ nodes[i].hostname = nodes[i].friendlyName \o <<".">> \o input.domain

\* C23 as stated: after a successful expandNodes the k-th node carrying a
\* nickname, counted across all groups in declaration order, has as
\* friendlyName the template with $suffix, $nickname and $friendlyNumber
\* substituted, friendlyNumber being 0 followed by k in at least two digits,
\* and hostname = friendlyName + "." + domain.
C23_FriendlyNames ==
    (result.op = "expandNodes" /\ result.status = "ok")
        => NamedAsSubstituted(inputFile[1], NodesOf(result.value))

\* C23 for the templates that name no placeholder twice.
C23_FriendlyNamesOfSimpleTemplates ==
    (result.op = "expandNodes" /\ result.status = "ok"
        /\ PlaceholdersOnce(friendlyNamePatternOf(inputFile[1])))
        => NamedAsSubstituted(inputFile[1], NodesOf(result.value))

\* Two groups sharing a nickname around a group of the other nickname, the
\* shared counter reaching two digits, under the default template.
C23_Witness ==
    /\ result.op = "expandNodes"
    /\ result.status = "ok"
    /\ inputFile[1].friendlyNamePattern = <<>>
    /\ Len(inputFile[1].nodeTypes) = 2
    /\ inputFile[1].nodeTypes[1].nickName = inputFile[1].nodeTypes[2].nickName
    /\ inputFile[1].nodeTypes[1].total = 2
    /\ inputFile[1].nodeTypes[2].total = MaxTotal + 9
    /\ NodesOf(result.value)[12].friendlyName = <<"s", "-", "a", "-", "0", "1", "2">>

\* A successful expansion under the template that names the nickname twice.
C23_RepeatedPlaceholder ==
    /\ result.op = "expandNodes"
    /\ result.status = "ok"
    /\ ~PlaceholdersOnce(friendlyNamePatternOf(inputFile[1]))
    /\ Len(NodesOf(result.value)) >= 1

-----------------------------------------------------------------------------
(* Expansion of every catalog entry under every REST exposure.              *)

CatalogInputs ==
    {NetworkInput(<<NodeTypeInput(<<"a">>, nodeType, total, <<0>>, restProtocol)>>, <<>>) :
        nodeType \in NodeMetadataTypes, restProtocol \in RestProtocols, total \in 1..MaxTotal}

InitCatalog ==
    /\ inputFile \in {Some(input) : input \in CatalogInputs}
    /\ networkFile = None
    /\ result = NoResult
    /\ presetFile = None
    /\ folders = {}
    /\ toolkitCalls = <<>>
    /\ workingDir = CurrentDirectory
    /\ secondRun = None
    /\ NoStore

NextCatalog == ExpandNodes

\* expandNodes over one group of every node type and REST exposure.
SpecCatalog == InitCatalog /\ [][NextCatalog]_vars

\* The assembly names of the catalog, entry by entry.
CatalogAssemblies ==
    ("VotingDual" :> "dual") @@ ("VotingPeer" :> "peer") @@ ("VotingApi" :> "peer")
    @@ ("HarvestingDual" :> "dual") @@ ("HarvestingPeer" :> "peer")
    @@ ("Services" :> "services") @@ ("Peer" :> "peer") @@ ("Api" :> "api")
    @@ ("HarvestingDemo" :> "demo") @@ ("VotingNonHarvestingPeer" :> "peer")

AssemblyNames == {"dual", "api", "peer", "services", "demo"}

\* name is the assembly the rule gives for the roles and the fixed tag.
AssemblyRule(api, peer, tag, name) ==
    /\ tag # "" => name = tag
    /\ (tag = "" /\ api /\ peer) => name = "dual"
    /\ (tag = "" /\ api /\ ~peer) => name = "api"
    /\ (tag = "" /\ ~api) => name = "peer"

\* C24: the assembly written on an expanded node is the fixed tag of its
\* catalog entry when it has one, otherwise "dual" for api and peer, "api" for
\* api without peer and "peer" in every other case; and every combination of
\* roles and tag has exactly one assembly name.
C24_AssemblyRule ==
    /\ (result.op = "expandNodes" /\ result.status = "ok")
          => \A i \in 1..Len(NodesOf(result.value)) :
                LET node == NodesOf(result.value)[i]
                    metadata == nodesMetadata[node.nodeType]
                IN /\ AssemblyRule(metadata.api, metadata.peer, metadata.assembly, node.assembly)
                   /\ node.assembly = CatalogAssemblies[node.nodeType]
    /\ \A api \in BOOLEAN, peer \in BOOLEAN, tag \in {"", "services", "demo"} :
          Cardinality({name \in AssemblyNames : AssemblyRule(api, peer, tag, name)}) = 1

\* An expanded node of an entry with a fixed tag whose roles alone give another name.
C24_Witness ==
    /\ result.op = "expandNodes"
    /\ result.status = "ok"
    /\ inputFile[1].nodeTypes[1].nodeType = "HarvestingDemo"
    /\ NodesOf(result.value)[1].assembly = "demo"

\* C25: in the customPreset of an expanded node an api node with HttpsOnly has
\* gateways openPort false and an httpsProxies entry, with HttpAndHttps
\* openPort true and an httpsProxies entry; with HttpOnly or no restProtocol,
\* or on a node that is not api, neither gateways nor httpsProxies is set; and
\* every node has privateKeySecurityMode PROMPT_MAIN_TRANSPORT and the voting
\* and harvesting flags of its catalog entry.
C25_RestExposure ==
    (result.op = "expandNodes" /\ result.status = "ok")
        => \A i \in 1..Len(NodesOf(result.value)) :
              LET node == NodesOf(result.value)[i]
                  metadata == nodesMetadata[node.nodeType]
                  customPreset == node.customPreset
              IN /\ (metadata.api /\ node.restProtocol = "HttpsOnly")
                        => /\ customPreset.gateways = Some([openPort |-> FALSE])
                           /\ customPreset.httpsProxies = Some([excludeDockerService |-> FALSE])
                 /\ (metadata.api /\ node.restProtocol = "HttpAndHttps")
                        => /\ customPreset.gateways = Some([openPort |-> TRUE])
                           /\ customPreset.httpsProxies = Some([excludeDockerService |-> FALSE])
                 /\ (~metadata.api \/ node.restProtocol \in {"HttpOnly", "undefined"})
                        => /\ customPreset.gateways = None
                           /\ customPreset.httpsProxies = None
                 /\ customPreset.privateKeySecurityMode = "PROMPT_MAIN_TRANSPORT"
                 /\ Len(customPreset.nodes) = 1
                 /\ customPreset.nodes[1].voting = metadata.voting
                 /\ customPreset.nodes[1].harvesting = metadata.harvesting

\* An expanded node that is not api with HttpsOnly chosen, and so without override.
C25_Witness ==
    /\ result.op = "expandNodes"
    /\ result.status = "ok"
    /\ inputFile[1].nodeTypes[1].nodeType = "VotingPeer"
    /\ inputFile[1].nodeTypes[1].restProtocol = "HttpsOnly"
    /\ NodesOf(result.value)[1].customPreset.gateways = None
    /\ NodesOf(result.value)[1].customPreset.nodes[1].voting

-----------------------------------------------------------------------------
(* NetworkAccountResolver: the account resolver handed to the toolkit for   *)
(* one node.                                                                *)

\* A key as the text of its hex digits: the key and whether the text is in
\* upper case (the SDK always writes upper case).
HexText(key, upper) == [key |-> key, upper |-> upper]

\* String.prototype.toUpperCase on a hex text.
toUpperCase(text) == [text EXCEPT !.upper = TRUE]

\* account.publicKey of an SDK Account.
PublicKeyText(account) == HexText(account.publicKey, TRUE)

\* CertificatePair: privateKey is None when the pair holds the public key only.
CertificatePair(publicKey, privateKey) == [publicKey |-> publicKey, privateKey |-> privateKey]

\* The prompts a model run may show.
MaxPrompts == 3

KnownError == "KnownError"
InvalidPublicKey == "Invalid public key"

enterPrivateKey_AcceptsAny(account, entry) ==
    IF entry = None
    THEN [pc |-> "prompt", value |-> None, account |-> account]
    ELSE [pc |-> "idle", value |-> Some(createFromPrivateKey(toUpperCase(entry[1]).key)),
          account |-> [account EXCEPT !.privateKey = Some(toUpperCase(entry[1]))]]

\* One pass of the while (true) of promptAccount after the operator's entry:
\* entry None is the empty entry.
enterPrivateKey(account, entry) ==
    LET privateKey == IF entry = None THEN None ELSE Some(toUpperCase(entry[1]))
    IN IF privateKey = None
       THEN [pc |-> "prompt", value |-> None, account |-> account]
       ELSE LET enteredAccount == createFromPrivateKey(privateKey[1].key)
            IN IF toUpperCase(PublicKeyText(enteredAccount)) # toUpperCase(account.publicKey)
               THEN [pc |-> "prompt", value |-> None, account |-> account]
               ELSE [pc |-> "idle", value |-> Some(enteredAccount),
                     account |-> [account EXCEPT !.privateKey = privateKey]]

\* NetworkAccountResolver.promptAccount up to its first prompt: account is
\* None or Some(pair), generateErrorMessage None or Some(text).
promptAccount(account, generateErrorMessage, count) ==
    IF account = None
    THEN IF generateErrorMessage # None /\ generateErrorMessage # Some("")
         THEN [status |-> KnownError, pc |-> "idle", value |-> None, generated |-> count]
         ELSE [status |-> "ok", pc |-> "idle",
               value |-> Some(createFromPrivateKey(FreshPrivateKey(count + 1))),
               generated |-> count + 1]
    ELSE IF account[1].privateKey = None
    THEN [status |-> "ok", pc |-> "prompt", value |-> None, generated |-> count]
    ELSE [status |-> "ok", pc |-> "idle",
          value |-> Some(createFromPrivateKey(account[1].privateKey[1].key)),
          generated |-> count]

resolveAccount_Unchecked(ks, node, account, keyName, forNodeName, generateErrorMessage) ==
    IF account # None /\ account[1].privateKey # None
    THEN [status |-> "ok", pc |-> "idle", ks |-> ks, keyStoreCalls |-> 0,
          value |-> Some(createFromPrivateKey(account[1].privateKey[1].key))]
    ELSE IF forNodeName = None \/ forNodeName = Some(<<>>)
    THEN LET prompted == promptAccount(account, generateErrorMessage, ks.generated)
         IN [status |-> prompted.status, pc |-> prompted.pc, keyStoreCalls |-> 0,
             ks |-> [ks EXCEPT !.generated = prompted.generated], value |-> prompted.value]
    ELSE LET stored == getNodeAccount(ks, keyName, forNodeName[1], node, TRUE)
         IN [status |-> stored.status, pc |-> "idle", ks |-> stored.ks, keyStoreCalls |-> 1,
             value |-> stored.value]

\* NetworkAccountResolver.resolveAccount up to its return, its throw or its
\* first prompt; node is this.node.number.
resolveAccount(ks, node, account, keyName, forNodeName, generateErrorMessage) ==
    IF account # None /\ account[1].privateKey # None
    THEN [status |-> "ok", pc |-> "idle", ks |-> ks, keyStoreCalls |-> 0,
          value |-> Some(createFromPrivateKey(account[1].privateKey[1].key))]
    ELSE IF forNodeName = None \/ forNodeName = Some(<<>>)
    THEN LET prompted == promptAccount(account, generateErrorMessage, ks.generated)
         IN [status |-> prompted.status, pc |-> prompted.pc, keyStoreCalls |-> 0,
             ks |-> [ks EXCEPT !.generated = prompted.generated], value |-> prompted.value]
    ELSE LET stored == getNodeAccount(ks, keyName, forNodeName[1], node, TRUE)
         IN IF stored.status # "ok"
            THEN [status |-> stored.status, pc |-> "idle", ks |-> stored.ks,
                  keyStoreCalls |-> 1, value |-> None]
            ELSE IF account # None /\ PublicKeyText(stored.value[1]) # account[1].publicKey
            THEN [status |-> InvalidPublicKey, pc |-> "idle", ks |-> stored.ks,
                  keyStoreCalls |-> 1, value |-> None]
            ELSE [status |-> "ok", pc |-> "idle", ks |-> stored.ks, keyStoreCalls |-> 1,
                  value |-> stored.value]

\* The private key the operator holds and the key-store.yml of an operator
\* who saved it as the Main key of node 1.
OperatorPrivateKey == 101

OperatorDocument ==
    Some([defaultValue EXCEPT
             !.nodes = Put(@, NodeKey(<<"n", "o", "d", "e">>, 1),
                           Put(EmptyMap, "Main",
                               toStored(createFromPrivateKey(OperatorPrivateKey))))])

\* The pairs the toolkit passes: none, the operator's public key in upper and
\* in lower case, another public key, and the operator's pair with its private key.
SuppliedAccounts ==
    {None,
     Some(CertificatePair(HexText(PublicKeyOf(OperatorPrivateKey), TRUE), None)),
     Some(CertificatePair(HexText(PublicKeyOf(OperatorPrivateKey), FALSE), None)),
     Some(CertificatePair(HexText(PublicKeyOf(OperatorPrivateKey + 1), TRUE), None)),
     Some(CertificatePair(HexText(PublicKeyOf(OperatorPrivateKey), TRUE),
                          Some(HexText(OperatorPrivateKey, TRUE))))}

NodeNameArguments == {None, Some(<<>>)} \cup {Some(forNodeName) : forNodeName \in NodeNamesCalled}

ErrorMessages == {None, Some("cannot generate")}

\* What the operator may type: nothing, the private key in either case, another key.
PromptEntries ==
    {None, Some(HexText(OperatorPrivateKey, TRUE)), Some(HexText(OperatorPrivateKey, FALSE)),
     Some(HexText(OperatorPrivateKey + 1, TRUE))}

ResolverArgs(account, keyName, forNodeName, generateErrorMessage) ==
    [NoArgs EXCEPT !.keyName = keyName,
                   !.nodeName = IF forNodeName = None THEN <<>> ELSE forNodeName[1],
                   !.generate = generateErrorMessage = None,
                   !.network = account]

\* The state after a call that returned, threw or stopped at its first prompt.
ResolverCall(op, args, account, outcome, ks, keyStoreCalls) ==
    /\ resolver.pc = "idle"
    /\ ks.generated <= MaxGenerated
    /\ storage' = ks.storage
    /\ disk' = ks.disk
    /\ generated' = ks.generated
    /\ resolver' = [resolver EXCEPT !.pc = outcome.pc, !.account = account,
                                    !.prompts = IF outcome.pc = "prompt" THEN 1 ELSE 0,
                                    !.entered = None, !.keyStoreCalls = keyStoreCalls]
    /\ result' = [OperationResult(op, IF outcome.pc = "prompt" THEN "pending" ELSE outcome.status,
                                  outcome.value) EXCEPT !.args = args]
    /\ UNCHANGED <<returned, topologyVars, genesisVars, comparisonVars, lifecycleVars>>

ResolveAccount ==
    \E account \in SuppliedAccounts, keyName \in KeyNamesCalled, forNodeName \in NodeNameArguments,
       generateErrorMessage \in ErrorMessages :
        LET outcome == resolveAccount(KeyStoreState, resolver.node, account, keyName, forNodeName,
                                      generateErrorMessage)
        IN ResolverCall("resolveAccount",
                        ResolverArgs(account, keyName, forNodeName, generateErrorMessage),
                        account, outcome, outcome.ks, outcome.keyStoreCalls)

PromptAccount ==
    \E account \in SuppliedAccounts, keyName \in KeyNamesCalled, forNodeName \in NodeNameArguments,
       generateErrorMessage \in ErrorMessages :
        LET outcome == promptAccount(account, generateErrorMessage, generated)
        IN ResolverCall("promptAccount",
                        ResolverArgs(account, keyName, forNodeName, generateErrorMessage),
                        account, outcome, [KeyStoreState EXCEPT !.generated = outcome.generated], 0)

\* The operator answers the prompt, and the loop returns or prompts again.
EnterPrivateKey ==
    \E entry \in PromptEntries :
        LET outcome == enterPrivateKey(resolver.account[1], entry)
        IN /\ resolver.pc = "prompt"
           /\ resolver.prompts < MaxPrompts \/ outcome.pc = "idle"
           /\ resolver' = [resolver EXCEPT
                              !.pc = outcome.pc,
                              !.account = Some(outcome.account),
                              !.prompts = IF outcome.pc = "prompt" THEN @ + 1 ELSE @,
                              !.entered = Some(entry)]
           /\ result' = [result EXCEPT
                            !.status = IF outcome.pc = "prompt" THEN "pending" ELSE "ok",
                            !.value = outcome.value]
           /\ UNCHANGED <<keyStoreVars, topologyVars, genesisVars, comparisonVars, lifecycleVars>>

InitResolver ==
    /\ NoFiles
    /\ disk \in {None, OperatorDocument}
    /\ storage = LoadStorage(disk)
    /\ generated = 0
    /\ returned = EmptyMap
    /\ keyStore = NoKeyStore
    /\ pending = NoPending
    /\ resolver \in {[NoResolver EXCEPT !.node = number] : number \in NodeNumbers}
    /\ result = NoResult

NextResolver ==
    \/ ResolveAccount
    \/ PromptAccount
    \/ EnterPrivateKey

\* The resolver of one node over a key store, with an operator at the prompt.
SpecResolver == InitResolver /\ [][NextResolver]_vars

\* A step that is a call of op on the resolver.
ResolverCalled(op) == resolver.pc = "idle" /\ result'.op = op

SuppliedAccount == result'.args.network

\* The account the store holds afterwards under (keyName, nodeName, this.node.number).
StoredForNode ==
    StoredNodeAccount(storage', NodeKey(result'.args.nodeName, resolver.node),
                      result'.args.keyName)

\* C26: resolveAccount returns the account of a supplied private key without
\* a call to the key store or a change of it; otherwise, given a node name, it
\* makes one call to the key store, never prompts, returns only the account
\* stored under (keyName, nodeName, number of the resolver's node), and fails
\* when a supplied public key differs from the stored account's; it reaches
\* the prompt only when no node name is given.
C26_AccountResolver ==
    [][ResolverCalled("resolveAccount") =>
          /\ (SuppliedAccount # None /\ SuppliedAccount[1].privateKey # None)
                => /\ result'.status = "ok"
                   /\ result'.value =
                         Some(createFromPrivateKey(SuppliedAccount[1].privateKey[1].key))
                   /\ resolver'.keyStoreCalls = 0
                   /\ resolver'.pc = "idle"
                   /\ UNCHANGED <<storage, disk, generated>>
          /\ (~(SuppliedAccount # None /\ SuppliedAccount[1].privateKey # None)
                 /\ result'.args.nodeName # <<>>)
                => /\ resolver'.keyStoreCalls = 1
                   /\ resolver'.pc = "idle"
                   /\ StoredForNode # None
                   /\ (SuppliedAccount # None
                          /\ SuppliedAccount[1].publicKey.key # StoredForNode[1].publicKey)
                         => result'.status # "ok"
                   /\ result'.status = "ok"
                         => result'.value = Some(createFromPrivateKey(StoredForNode[1].privateKey))
          /\ resolver'.pc = "prompt" => result'.args.nodeName = <<>>
       ]_vars

\* resolveAccount for the Main key of node 1 failed because the supplied
\* public key is not that of the account the operator had stored.
C26_Witness ==
    /\ result.op = "resolveAccount"
    /\ result.status = InvalidPublicKey
    /\ resolver.keyStoreCalls = 1
    /\ resolver.node = 1
    /\ result.args.keyName = "Main"
    /\ result.args.network[1].publicKey.key = PublicKeyOf(OperatorPrivateKey + 1)
    /\ StoredNodeAccount(storage, NodeKey(result.args.nodeName, 1), "Main")
          = Some(toStored(createFromPrivateKey(OperatorPrivateKey)))

\* The entry of a step at the prompt derives the expected public key.
MatchingEntry ==
    /\ resolver'.entered[1] # None
    /\ PublicKeyOf(resolver'.entered[1][1].key) = resolver.account[1].publicKey.key

\* C27: promptAccount for a known public key without private key prompts; at
\* the prompt an empty entry or a private key of another public key leads to
\* one more prompt and never to an error, the loop ends exactly on an entry
\* that derives the expected public key and returns the account of that
\* entry; with no known account and generation disallowed it fails at once
\* without a prompt.
C27_PromptRecoveryLoop ==
    [][/\ (ResolverCalled("promptAccount") /\ SuppliedAccount # None
              /\ SuppliedAccount[1].privateKey = None)
            => resolver'.pc = "prompt" /\ resolver'.prompts = 1
       /\ (ResolverCalled("promptAccount") /\ SuppliedAccount = None /\ ~result'.args.generate)
            => /\ result'.status = KnownError
               /\ resolver'.pc = "idle"
               /\ resolver'.prompts = 0
       /\ resolver.pc = "prompt"
            => /\ resolver'.pc = "idle" <=> MatchingEntry
               /\ resolver'.pc = "prompt"
                     => /\ resolver'.prompts = resolver.prompts + 1
                        /\ result'.status = "pending"
                        /\ result'.value = None
               /\ resolver'.pc = "idle"
                     => /\ result'.status = "ok"
                        /\ result'.value # None
                        /\ result'.value[1].publicKey = resolver.account[1].publicKey.key
                        /\ result'.value[1].privateKey = resolver'.entered[1][1].key
               /\ UNCHANGED <<storage, disk, generated>>
      ]_vars

\* promptAccount returned at its third prompt, on the private key typed in lower case.
C27_Witness ==
    /\ result.op = "promptAccount"
    /\ result.status = "ok"
    /\ resolver.pc = "idle"
    /\ resolver.prompts = MaxPrompts
    /\ resolver.entered = Some(Some(HexText(OperatorPrivateKey, FALSE)))
    /\ result.value = Some(createFromPrivateKey(OperatorPrivateKey))
    /\ resolver.account[1].privateKey = Some(HexText(OperatorPrivateKey, TRUE))

-----------------------------------------------------------------------------
(* NetworkConfigurationService.updateNodes.  A run threads the record       *)
(* [status, ks, nodes, folders, toolkitCalls, processed] through the nodes  *)
(* of the topology; a step after a throw does nothing.                      *)

SeedFolderMissing == "nemesisSeedFolder must be provided"
NodePresetMissing == "Node's custom preset cannot be found"
ToolkitFailed == "ToolkitFailed"
AddressesUnresolved == "Node addresses should have been resolved"

\* How the external toolkit may fail on a node: in config, in compose, or by
\* returning no addresses of the node.
ToolkitFailures == {"config", "compose", "addresses"}

\* join(this.workingDir, 'nodes', `node-${NetworkUtils.zeroPad(node.number, 3)}`)
NodeFolder(directory, node) == Join(directory, <<"n", "o", "d", "e", "-">> \o zeroPad(node.number, 3))

\* result.addresses.nodes?.[0] of a config that resolved the node's addresses.
ResolvedAddresses(node) == [main |-> node.number, hostname |-> node.hostname]

\* node.addresses = nodeAddresses
WithAddresses(node, nodeAddresses) ==
    [field \in (DOMAIN node) \cup {"addresses"} |->
        IF field = "addresses" THEN nodeAddresses ELSE node[field]]

UpdateRun(status, ks, nodes, fs, calls, processed) ==
    [status |-> status, ks |-> ks, nodes |-> nodes, folders |-> fs, toolkitCalls |-> calls,
     processed |-> processed]

Failed(run, status) == [run EXCEPT !.status = status]

\* Lines 252-268: the addresses recorded on the node, and the zip when asked for.
NodeWithAddresses(run, input, i, directory, failAt, failure, zip) ==
    IF failAt = i /\ failure = "addresses" THEN Failed(run, AddressesUnresolved)
    ELSE [run EXCEPT
             !.nodes[i] = WithAddresses(@, ResolvedAddresses(@)),
             !.folders = IF zip THEN @ \cup {Join(directory, <<"d", "i", "s", "t">>)} ELSE @]

\* Lines 225-251: service.config and service.compose of the toolkit.
NodeConfigured(run, input, i, directory, failAt, failure, zip, customPresetObject) ==
    LET config == ToolkitCall("config", i, Some(customPresetObject))
    IN IF failAt = i /\ failure = "config"
       THEN Failed([run EXCEPT !.toolkitCalls = Append(@, config)], ToolkitFailed)
       ELSE IF failAt = i /\ failure = "compose"
       THEN Failed([run EXCEPT !.toolkitCalls =
                                    @ \o <<config, ToolkitCall("compose", i, None)>>],
                   ToolkitFailed)
       ELSE NodeWithAddresses(
                [run EXCEPT !.toolkitCalls = @ \o <<config, ToolkitCall("compose", i, None)>>],
                input, i, directory, failAt, failure, zip)

\* Lines 207-214: the seed folder copied into the node's folder, or removed from it.
NodeWithSeed(run, input, i, directory, failAt, failure, zip, faucets) ==
    LET nodeNemesisSeedFolder ==
            Join(directory, NodeFolder(directory, run.nodes[i])[2] \o <<"/", "s", "e", "e", "d">>)
        seeded == input.nemesisSeedFolder # ""
        fs == IF seeded
              THEN copyDir(run.folders, Join(directory, <<"s", "e", "e", "d">>),
                           nodeNemesisSeedFolder)
              ELSE deleteFolder(run.folders, nodeNemesisSeedFolder)
    IN NodeConfigured([run EXCEPT !.folders = fs], input, i, directory, failAt, failure, zip,
                      [faucets |-> faucets, nemesisSeedFolder |-> input.nemesisSeedFolder,
                       nodes |-> run.nodes[i].customPreset.nodes])

\* Lines 191-205: a demo node's faucet takes the faucet account of the key
\* store when the topology declares faucet balances.
NodeWithFaucet(run, input, i, directory, failAt, failure, zip) ==
    IF ~nodesMetadata[run.nodes[i].nodeType].demo
    THEN NodeWithSeed(run, input, i, directory, failAt, failure, zip, None)
    ELSE IF ~TruthyList(input.faucetBalances)
    THEN NodeWithSeed(run, input, i, directory, failAt, failure, zip,
                      Some([repeat |-> 0, privateKey |-> None]))
    ELSE LET faucetAccount == getNetworkAccount(run.ks, "faucet", TRUE)
         IN NodeWithSeed([run EXCEPT !.ks = faucetAccount.ks], input, i, directory, failAt,
                         failure, zip,
                         Some([repeat |-> 1,
                               privateKey |-> Some(faucetAccount.value[1].privateKey)]))

UpdateNode_PastFailures(run, input, i, directory, failAt, failure, zip) ==
    LET started == [run EXCEPT !.status = "ok", !.processed = Append(@, i),
                               !.folders = @ \cup {NodeFolder(directory, run.nodes[i])}]
    IN IF run.nodes[i].customPreset.nodes = <<>> THEN Failed(started, NodePresetMissing)
       ELSE NodeWithFaucet(started, input, i, directory, failAt, failure, zip)

\* Lines 175-190: one pass of the loop over input.nodes.
UpdateNode(run, input, i, directory, failAt, failure, zip) ==
    IF run.status # "ok" THEN run
    ELSE LET started == [run EXCEPT !.processed = Append(@, i),
                                    !.folders = @ \cup {NodeFolder(directory, run.nodes[i])}]
         IN IF run.nodes[i].customPreset.nodes = <<>> THEN Failed(started, NodePresetMissing)
            ELSE NodeWithFaucet(started, input, i, directory, failAt, failure, zip)

\* for (const node of input.nodes)
RECURSIVE UpdateSteps(_, _, _, _, _, _, _)
UpdateSteps(run, input, n, directory, failAt, failure, zip) ==
    IF n = 0 THEN run
    ELSE UpdateNode(UpdateSteps(run, input, n - 1, directory, failAt, failure, zip),
                    input, n, directory, failAt, failure, zip)

\* What updateNodes leaves behind: writes is how many times network.yml was saved.
UpdateOutcome(run, document, writes) ==
    [status |-> run.status, ks |-> run.ks, networkFile |-> document, folders |-> run.folders,
     toolkitCalls |-> run.toolkitCalls, processed |-> run.processed, writes |-> writes]

\* Line 270: the topology saved with the addresses, once the loop has ended.
UpdatedNetwork(run, input, document) ==
    IF run.status # "ok" THEN UpdateOutcome(run, document, 0)
    ELSE UpdateOutcome(run, saveNetwork([input EXCEPT !.nodes = run.nodes]), 1)

\* NetworkConfigurationService.updateNodes({ zip }) on the workspace w and the
\* store ks, the toolkit failing on the failAt-th node (0: on none).
updateNodes(ks, w, failAt, failure, zip) ==
    LET idle == UpdateRun("ok", ks, <<>>, w.folders, <<>>, <<>>)
    IN IF w.networkFile = None
       THEN UpdateOutcome(Failed(idle, "NetworkFileMissing"), w.networkFile, 0)
       ELSE IF isYmlFile(w.networkFile[1].preset) /\ w.presetFile = None
       THEN UpdateOutcome(Failed(idle, "PresetFileMissing"), w.networkFile, 0)
       ELSE IF isYmlFile(w.networkFile[1].preset) /\ w.networkFile[1].nemesisSeedFolder = ""
       THEN UpdateOutcome(Failed(idle, SeedFolderMissing), w.networkFile, 0)
       ELSE UpdatedNetwork(
                UpdateSteps([idle EXCEPT !.nodes = w.networkFile[1].nodes], w.networkFile[1],
                            Len(w.networkFile[1].nodes), w.workingDir, failAt, failure, zip),
                w.networkFile[1], w.networkFile)

-----------------------------------------------------------------------------
(* Node update over a set of topologies.                                    *)

\* The groups of the topologies, of which a topology has one or two: peers,
\* and a demo node with its faucet.
UpdateNodeTypeInputs ==
    {NodeTypeInput(<<"c">>, "Peer", 1, <<0>>, "undefined"),
     NodeTypeInput(<<"c">>, "Peer", 2, <<0>>, "undefined"),
     NodeTypeInput(<<"e">>, "HarvestingDemo", 1, <<500>>, "HttpAndHttps")}

\* network.yml as expandNodes and generateNemesis leave it, for a custom
\* network with and without its seed folder and for a bundled preset.
UpdateTopologies ==
    {expandNodes(Some([NetworkInput(nodeTypes, <<>>) EXCEPT
                          !.preset = preset,
                          !.nemesisSeedFolder = nemesisSeedFolder,
                          !.faucetBalances = faucetBalances]), None).networkFile :
        nodeTypes \in {<<first>> : first \in UpdateNodeTypeInputs}
                          \cup (UpdateNodeTypeInputs \X UpdateNodeTypeInputs),
        preset \in YmlPresets \cup BundledPresets,
        nemesisSeedFolder \in {"", NEMESIS_SEED_FOLDER},
        faucetBalances \in {None, Some(<<7>>)}}

\* The topology after an operator removed the override of its i-th node.
WithoutNodePreset(document, i) ==
    IF i = 0 \/ i > Len(NodesOf(document)) THEN document
    ELSE Some([document[1] EXCEPT !.nodes[i].customPreset.nodes = <<>>])

UpdateNodes ==
    \E failAt \in 0..Len(NodesOf(networkFile)), failure \in ToolkitFailures, zip \in BOOLEAN :
        LET outcome == updateNodes(KeyStoreState, Workspace, failAt, failure, zip)
        IN /\ outcome.ks.generated <= MaxGenerated
           /\ storage' = outcome.ks.storage
           /\ disk' = outcome.ks.disk
           /\ generated' = outcome.ks.generated
           /\ networkFile' = outcome.networkFile
           /\ folders' = outcome.folders
           /\ toolkitCalls' = outcome.toolkitCalls
           /\ result' = [OperationResult("updateNodes", outcome.status,
                                         Some([processed |-> outcome.processed,
                                               writes |-> outcome.writes,
                                               failAt |-> failAt, failure |-> failure]))
                            EXCEPT !.args.number = failAt]
           /\ UNCHANGED <<inputFile, presetFile, workingDir, returned, comparisonVars,
                          lifecycleVars, resolverVars>>

InitUpdate ==
    /\ inputFile = None
    /\ \E document \in UpdateTopologies :
          \E i \in 0..Len(NodesOf(document)) : networkFile = WithoutNodePreset(document, i)
    /\ presetFile = Some(CompletePreset)
    /\ workingDir = CurrentDirectory
    /\ folders = {}
    /\ toolkitCalls = <<>>
    /\ secondRun = None
    /\ NoStore
    /\ result = NoResult

NextUpdate == UpdateNodes

\* updateNodes, any number of times, over the topologies.
SpecUpdate == InitUpdate /\ [][NextUpdate]_vars

\* The first node on which the run fails: the failAt-th, on which the toolkit
\* fails, or an earlier node without override; 0 when there is none.
FirstFailing(nodes, failAt) ==
    LET failing == {i \in 1..Len(nodes) : i = failAt \/ nodes[i].customPreset.nodes = <<>>}
    IN IF failing = {} THEN 0 ELSE CHOOSE i \in failing : \A j \in failing : i <= j

IsConfig(call) == call.call = "config"

\* The nodes the toolkit was asked to configure, in the order of the calls.
Configured(calls) ==
    [k \in 1..Len(SelectSeq(calls, IsConfig)) |-> SelectSeq(calls, IsConfig)[k].candidate]

CustomWithoutSeed(network) == isYmlFile(network.preset) /\ network.nemesisSeedFolder = ""

\* C28: updateNodes takes the nodes one at a time in topology order; when a
\* node fails (no node override, a toolkit error, no addresses resolved) no
\* later node is processed and network.yml stays as it was; network.yml is
\* saved at most once, and only with the resolved addresses recorded on every
\* node; a custom network without nemesisSeedFolder fails before any node is
\* processed.
C28_UpdateAbortsAsAWhole ==
    [][result'.op = "updateNodes" =>
          LET before == networkFile[1]
              run == result'.value[1]
              first == FirstFailing(before.nodes, run.failAt)
          IN /\ run.processed = [i \in 1..Len(run.processed) |-> i]
             /\ \A k \in 1..Len(Configured(toolkitCalls')) : Configured(toolkitCalls')[k] = k
             /\ Len(Configured(toolkitCalls')) <= Len(run.processed)
             /\ run.writes <= 1
             /\ run.writes = 0 => networkFile' = networkFile
             /\ run.writes = 1 <=> result'.status = "ok"
             /\ CustomWithoutSeed(before)
                   => /\ result'.status = SeedFolderMissing
                      /\ run.processed = <<>>
                      /\ toolkitCalls' = <<>>
                      /\ UNCHANGED <<networkFile, folders, storage, disk, generated>>
             /\ (~CustomWithoutSeed(before) /\ first # 0)
                   => /\ result'.status # "ok"
                      /\ Len(run.processed) = first
                      /\ run.writes = 0
             /\ (~CustomWithoutSeed(before) /\ first = 0)
                   => /\ result'.status = "ok"
                      /\ Len(run.processed) = Len(before.nodes)
                      /\ Len(NodesOf(networkFile')) = Len(before.nodes)
                      /\ \A i \in 1..Len(before.nodes) :
                            /\ "addresses" \in DOMAIN NodesOf(networkFile')[i]
                            /\ NodesOf(networkFile')[i].addresses
                                  = ResolvedAddresses(before.nodes[i])
       ]_vars

\* A run over three nodes that failed on the second, in compose, after the
\* first was configured: the third was not processed and no address is recorded.
C28_Witness ==
    /\ result.op = "updateNodes"
    /\ result.status = ToolkitFailed
    /\ Len(NodesOf(networkFile)) = 3
    /\ result.value[1].processed = <<1, 2>>
    /\ result.value[1].failAt = 2
    /\ result.value[1].failure = "compose"
    /\ Configured(toolkitCalls) = <<1, 2>>
    /\ \A i \in 1..3 : "addresses" \notin DOMAIN NodesOf(networkFile)[i]

\* A run that recorded the addresses of every node, its demo node included.
C28_Saved ==
    /\ result.op = "updateNodes"
    /\ result.status = "ok"
    /\ result.value[1].writes = 1
    /\ Len(NodesOf(networkFile)) = 3
    /\ \A i \in 1..3 : "addresses" \in DOMAIN NodesOf(networkFile)[i]
    /\ "faucet" \in DOMAIN storage.network

-----------------------------------------------------------------------------
(* A LazyKeyStore with several operations in progress: a call stops at the  *)
(* await of getDelegate and at the await of the delegate's operation, and   *)
(* the other calls run in between.                                          *)

Call(c) == pending.calls[c]

\* An operation begins: getDelegate tests this.delegate and, finding none,
\* calls this.factory() and awaits it.
StartOperation(c) ==
    /\ Call(c).pc \in {"idle", "done", "failed"}
    /\ pending' =
          [pending EXCEPT
              !.calls[c] =
                  IF keyStore.delegate # None
                  THEN [pc |-> "delegated", delegate |-> keyStore.delegate[1]]
                  ELSE [pc |-> "factory", delegate |-> 0]]
    /\ result' = OperationResult("getDelegate", "pending", None)
    /\ UNCHANGED <<keyStore, keyStoreVars, topologyVars, genesisVars, comparisonVars,
                   resolverVars>>

\* The factory a call awaits completes: this.delegate = await this.factory(),
\* and getDelegate returns this.delegate to the call.
CompleteFactory(c) ==
    \E answer \in PromptAnswers, readable \in BOOLEAN :
        LET made == factory(keyStore, disk, answer, readable)
        IN /\ Call(c).pc = "factory"
           /\ made.store.factoryCalls <= MaxFactoryCalls
           /\ keyStore' = made.store
           /\ pending' =
                 IF made.status = "ok"
                 THEN [pending EXCEPT
                          !.calls[c] = [pc |-> "delegated", delegate |-> made.store.delegate[1]],
                          !.memories = Append(@, made.storage[1])]
                 ELSE [pending EXCEPT !.calls[c] = [pc |-> "failed", delegate |-> 0]]
           /\ storage' = IF made.status = "ok" THEN made.storage[1] ELSE storage
           /\ result' = OperationResult("getDelegate", made.status, None)
           /\ UNCHANGED <<disk, generated, returned, topologyVars, genesisVars, comparisonVars,
                          resolverVars>>

\* The operation of a call runs on the store getDelegate returned to it.
OperateOnDelegate(c) ==
    \E accountName \in RolesCalled :
        LET served == Call(c).delegate
            outcome == getNetworkAccount([storage |-> pending.memories[served], disk |-> disk,
                                          generated |-> generated], accountName, TRUE)
        IN /\ Call(c).pc = "delegated"
           /\ outcome.ks.generated <= MaxGenerated
           /\ pending' = [pending EXCEPT
                             !.calls[c] = [pc |-> "done", delegate |-> served],
                             !.memories[served] = outcome.ks.storage]
           /\ keyStore' = [keyStore EXCEPT !.servedBy = served]
           /\ storage' = IF keyStore.delegate = Some(served) THEN outcome.ks.storage ELSE storage
           /\ disk' = outcome.ks.disk
           /\ generated' = outcome.ks.generated
           /\ result' = [OperationResult("getNetworkAccount", outcome.status, outcome.value)
                            EXCEPT !.args.accountName = accountName, !.args.generate = TRUE]
           /\ UNCHANGED <<returned, topologyVars, genesisVars, comparisonVars, resolverVars>>

\* createStore(flags, logger, true, workingDir) has returned the LazyKeyStore.
InitInterleaved ==
    /\ NoFiles
    /\ disk \in {None, Some(SeededDocument)}
    /\ storage = LoadStorage(None)
    /\ generated = 0
    /\ returned = EmptyMap
    /\ keyStore \in {[NoKeyStore EXCEPT !.kind = "LazyKeyStore", !.password = password] :
                        password \in Passwords}
    /\ pending = NoPending
    /\ resolver = NoResolver
    /\ result = NoResult

NextInterleaved ==
    \E c \in CallIds :
        \/ StartOperation(c)
        \/ CompleteFactory(c)
        \/ OperateOnDelegate(c)

\* Operations on one LazyKeyStore, begun in any order and not awaited.
SpecInterleaved == InitInterleaved /\ [][NextInterleaved]_vars

\* The times this.factory() has been called: the calls that have completed
\* and those awaited.
FactoryInvocations ==
    keyStore.factoryCalls + Cardinality({c \in CallIds : Call(c).pc = "factory"})

\* The stores that have served or are serving a call.
Serving == {Call(c).delegate : c \in {d \in CallIds : Call(d).pc \in {"delegated", "done"}}}

\* C29 as stated: however the operations on a LazyKeyStore interleave, a
\* factory that does not fail is called at most once and every operation is
\* served by one and the same delegate.
C29_OnceComputedDelegate ==
    keyStore.factoryFailures = 0
        => /\ FactoryInvocations <= 1
           /\ Cardinality(Serving) <= 1
           /\ keyStore.instances <= 1

\* Two operations begun before the factory of the first had completed were
\* served by two stores, and the account the first store generated is no
\* longer in the file.
C29_TwoDelegates ==
    /\ keyStore.factoryFailures = 0
    /\ keyStore.factoryCalls = 2
    /\ Call(1).pc = "done" /\ Call(2).pc = "done"
    /\ Call(1).delegate # Call(2).delegate
    /\ "founder" \in DOMAIN pending.memories[1].network
    /\ disk # None
    /\ "founder" \notin DOMAIN disk[1].network

\* Operations begun one after the other's end share the delegate.
C29_Sequential ==
    /\ keyStore.factoryCalls = 1
    /\ Call(1).pc = "done" /\ Call(2).pc = "done"
    /\ Call(1).delegate = Call(2).delegate

-----------------------------------------------------------------------------
(* The key store under calls for nodes whose names hold the separator of    *)
(* the composite keys.                                                      *)

\* Node names: "n" and "n-1", so that ("n-1", k) and ("n", 1, k) spell alike.
FrameNodeNames == {<<"n">>, <<"n", "-", "1">>}

FrameGetNodeAccount ==
    \E keyName \in KeyNamesCalled, name \in FrameNodeNames, number \in NodeNumbers :
        KeyStoreCall("getNodeAccount", NodeEntry(name, number, keyName),
                     [NoArgs EXCEPT !.keyName = keyName, !.nodeName = name,
                                    !.number = number, !.generate = TRUE],
                     getNodeAccount(KeyStoreState, keyName, name, number, TRUE))

FrameGetVotingKeyFile ==
    \E name \in FrameNodeNames, number \in NodeNumbers, range \in EpochRangesFromOne :
        KeyStoreCall("getVotingKeyFile", VotingEntry(name, number, range[1], range[2]),
                     [NoArgs EXCEPT !.nodeName = name, !.number = number,
                                    !.startEpoch = range[1], !.endEpoch = range[2]],
                     getVotingKeyFile(KeyStoreState, name, number, range[1], range[2]))

NextFrame ==
    \/ GetNetworkAccount
    \/ SaveNetworkAccount
    \/ FrameGetNodeAccount
    \/ FrameGetVotingKeyFile

\* Every operation of the key store over those names.
SpecFrame == InitKeyStore /\ [][NextFrame]_vars

\* The entries of a map other than the addressed one are the same before and
\* after: addressed is the key of the map the step addresses, or None.
SameButAt(before, after, addressed) ==
    \A k \in (DOMAIN before) \cup (DOMAIN after) :
        Some(k) # addressed => (k \in DOMAIN before /\ k \in DOMAIN after /\ before[k] = after[k])

AddressedIn(map) == IF result'.key[1] = map THEN Some(result'.key[2]) ELSE None

\* The node accounts, entry by entry, are the same except the one addressed.
SameNodesButAt(before, after) ==
    \A nodeKey \in (DOMAIN before) \cup (DOMAIN after) :
        IF AddressedIn("nodes") = Some(nodeKey)
        THEN SameButAt(IF nodeKey \in DOMAIN before THEN before[nodeKey] ELSE EmptyMap,
                       IF nodeKey \in DOMAIN after THEN after[nodeKey] ELSE EmptyMap,
                       Some(result'.key[3]))
        ELSE nodeKey \in DOMAIN before /\ nodeKey \in DOMAIN after
                /\ before[nodeKey] = after[nodeKey]

\* The entry the step addresses was in the store before the step.
FoundExisting ==
    \/ result'.key[1] = "network" /\ StoredNetworkAccount(storage, result'.key[3]) # None
    \/ result'.key[1] = "nodes"
          /\ StoredNodeAccount(storage, result'.key[2], result'.key[3]) # None
    \/ result'.key[1] = "votingFiles" /\ StoredVotingFile(storage, result'.key[2]) # None

\* C30: a key-store operation changes at most the entry its composite key
\* addresses, in memory and in the file, and leaves every other entry of
\* network, nodes and votingFiles as it was; a lookup that finds its entry
\* leaves the store's content as it was; and different (nodeName, number) and
\* (nodeName, number, startEpoch, endEpoch) never spell the same key.
C30_KeyStoreFrame ==
    [][/\ SameButAt(storage.network, storage'.network,
                    IF result'.key[1] = "network" THEN Some(result'.key[3]) ELSE None)
       /\ SameNodesButAt(storage.nodes, storage'.nodes)
       /\ SameButAt(storage.votingFiles, storage'.votingFiles, AddressedIn("votingFiles"))
       /\ SameButAt(LoadStorage(disk).network, LoadStorage(disk').network,
                    IF result'.key[1] = "network" THEN Some(result'.key[3]) ELSE None)
       /\ SameNodesButAt(LoadStorage(disk).nodes, LoadStorage(disk').nodes)
       /\ SameButAt(LoadStorage(disk).votingFiles, LoadStorage(disk').votingFiles,
                    AddressedIn("votingFiles"))
       /\ (result'.op \in GetOrGenerateOps /\ FoundExisting)
             => storage' = storage /\ LoadStorage(disk') = LoadStorage(disk)
       /\ \A a \in FrameNodeNames \X NodeNumbers, b \in FrameNodeNames \X NodeNumbers :
             a # b => NodeKey(a[1], a[2]) # NodeKey(b[1], b[2])
       /\ \A a \in FrameNodeNames \X NodeNumbers \X EpochRanges,
             b \in FrameNodeNames \X NodeNumbers \X EpochRanges :
             a # b => VotingKey(a[1], a[2], a[3][1], a[3][2]) # VotingKey(b[1], b[2], b[3][1], b[3][2])
      ]_vars

\* The VRF key of node 1 of "n-1" was generated beside its Main key, in a
\* store that holds a voting key file.
C30_Witness ==
    /\ result.op = "getNodeAccount"
    /\ result.status = "ok"
    /\ result.args.keyName = "VRF"
    /\ result.key[2] = <<"n", "-", "1", "-", "1">>
    /\ StoredNodeAccount(storage, <<"n", "-", "1", "-", "1">>, "Main") # None
    /\ StoredNodeAccount(storage, <<"n", "-", "1", "-", "1">>, "VRF") # None
    /\ DOMAIN storage.votingFiles # {}

====
